---------------------------- MODULE Spec2Model ----------------------------
(***************************************************************************)
(* A model of django-sheetsdb: the in-memory Table overlay of sdk.py       *)
(* (select / insert / update / delete / commit), the remote calls of       *)
(* google_services.py it issues, the spreadsheet those calls act on, and   *)
(* the table cache of SheetsdbSDK.                                         *)
(*                                                                         *)
(* Python values are records [k, s, n]: k is the kind ("none", "str",      *)
(* "num"), s the text of a str, n the number of a num.  Row indexes are    *)
(* 0-based as in the code; a TLA+ sequence holds row i at position i + 1.  *)
(***************************************************************************)
EXTENDS Integers, Sequences, FiniteSets, TLC

VARIABLES
    initial_rows,                  \* Table.initial_rows
    inserted_rows,                 \* Table.inserted_rows
    deleted_initial_row_indexes,   \* Table.deleted_initial_row_indexes
    updated_initial_row_indexes,   \* Table.updated_initial_row_indexes
    remote,                        \* the rows of the spreadsheet behind the Table
    policy,                        \* how the store reads the ranges of one delete batch
    calls,                         \* the remote calls issued by the latest commit, in order
    okRun,                         \* successful commits in a row with no call in between
    lastDelete,                    \* the predicates of the latest delete that returned
    retry,                         \* a failed commit and what one clean commit would have stored
    sdk_tables,                    \* SheetsdbSDK._tables: database name -> table name -> Table
    heap,                          \* the Table objects the SDK has built, by identity
    sdk_reads,                     \* get_columns_values requests sent, per spreadsheet
    sdk_last,                      \* the latest call on the SDK and its result
    first_ref,                     \* the first Table get_table returned for each name pair
    applied,                       \* the function application under evaluation, if any
    returned,                      \* what that application returned, once it has
    pc,                            \* where a commit that runs block by block stands
    locking,                       \* whether the callers of the Table share a lock
    carried,                       \* what the remote calls of the running commit carried
    lost                           \* the running commit dropped an edit it had not sent

tableVars == <<initial_rows, inserted_rows, deleted_initial_row_indexes,
               updated_initial_row_indexes>>

oneTableVars == <<initial_rows, inserted_rows, deleted_initial_row_indexes,
                  updated_initial_row_indexes, remote, policy, calls, okRun, lastDelete,
                  retry>>

sdkVars == <<sdk_tables, heap, sdk_reads, sdk_last, first_ref>>

evalVars == <<applied, returned>>

threadVars == <<pc, locking, carried, lost>>

vars == <<initial_rows, inserted_rows, deleted_initial_row_indexes,
          updated_initial_row_indexes, remote, policy, calls, okRun, lastDelete, retry,
          sdk_tables, heap, sdk_reads, sdk_last, first_ref, applied, returned,
          pc, locking, carried, lost>>

----------------------------------------------------------------------------
(* Bounds of the model *)

MaxRows == 3        \* rows of the Table, base and inserted together

MaxTables == 3      \* Table objects one SheetsdbSDK builds

----------------------------------------------------------------------------
(* Python values *)

None == [k |-> "none", s |-> "", n |-> 0]

Str(x) == [k |-> "str", s |-> x, n |-> 0]

Num(i) == [k |-> "num", s |-> "", n |-> i]

\* the outcome of an expression that raised
Raised == [k |-> "raised", s |-> "", n |-> 0]

\* the decimal numerals the model can parse and print: Numerals[i + 1] is str(i)
Numerals == <<"0", "1", "2", "3", "4", "5", "6", "7", "8", "9">>

\* float(raw): a number as it is, a numeral parsed, anything else raises ValueError
\* (None never reaches float: convert_to_value returns before)
float(raw) ==
    IF raw.k = "num" THEN raw
    ELSE IF raw.k = "str" /\ \E i \in 1..Len(Numerals) : Numerals[i] = raw.s
         THEN Num((CHOOSE i \in 1..Len(Numerals) : Numerals[i] = raw.s) - 1)
         ELSE Raised

\* str(raw): text as it is, a number printed
str(raw) ==
    IF raw.k = "str" THEN raw
    ELSE IF raw.k = "num" /\ raw.n + 1 \in 1..Len(Numerals) THEN Str(Numerals[raw.n + 1])
    ELSE Raised

\* get_col_index returns None when no column has the name
NoIndex == -1

\* the index of the first column named col_name, NoIndex when there is none
get_col_index(col_name, col_defs) ==
    LET found == {i \in 0..(Len(col_defs) - 1) : col_defs[i + 1].name = col_name}
    IN  IF found = {} THEN NoIndex
        ELSE CHOOSE i \in found : \A j \in found : i <= j

get_or_default(arr, index, default_value) ==
    IF Len(arr) > index THEN arr[index + 1] ELSE default_value

\* the JSON documents the model can parse, other than numerals: the text of a
\* col_defs cell and the column definitions it denotes
JsonDocs ==
    [text \in {"[{\"name\": \"a\", \"type\": \"string\"}, {\"name\": \"b\", \"type\": \"number\"}]"} |->
        <<[name |-> "a", type |-> "string"], [name |-> "b", type |-> "number"]>>]

\* json.loads(raw): a numeral is its number, a known document the parsed
\* object [k |-> "json", s |-> its text], any other text a syntax error and a
\* value that is no text a TypeError
json_loads(raw) ==
    IF raw.k # "str" THEN Raised
    ELSE IF float(raw) # Raised THEN float(raw)
    ELSE IF raw.s \in DOMAIN JsonDocs THEN [k |-> "json", s |-> raw.s, n |-> 0]
    ELSE Raised

\* convert_to_value: None and '' give None for every type
convert_to_value(raw_value, value_type) ==
    IF raw_value = None \/ raw_value = Str("") THEN None
    ELSE IF value_type = "string" THEN str(raw_value)
    ELSE IF value_type = "number" THEN float(raw_value)
    ELSE IF value_type = "datetime" THEN str(raw_value)
    ELSE IF value_type = "json" THEN json_loads(raw_value)
    ELSE raw_value

----------------------------------------------------------------------------
(* WhereCondition *)

Comparators == {"=", "<=", "<", ">", ">="}

\* the object WhereCondition.__init__ builds (its arguments pass the checks
\* of lines 543-548: value and col_name not None, a known comparator)
WhereCondition(col_name, value, comparator) ==
    [col_name |-> col_name, value |-> value, comparator |-> comparator]

\* the one-character texts of the model in str order
StrOrder == <<"", "0", "1", "2", "3", "4", "5", "6", "7", "8", "9", "x", "y">>

StrRank(x) == CHOOSE i \in 1..Len(StrOrder) : StrOrder[i] = x

\* Python's a < b and a <= b: defined between two numbers and between two
\* strs, TypeError (Raised) for None and for mixed kinds
PyLess(a, b, orEqual) ==
    IF a.k = "num" /\ b.k = "num"
    THEN (IF a.n < b.n \/ (orEqual /\ a.n = b.n) THEN "T" ELSE "F")
    ELSE IF a.k = "str" /\ b.k = "str"
    THEN (IF StrRank(a.s) < StrRank(b.s) \/ (orEqual /\ a.s = b.s) THEN "T" ELSE "F")
    ELSE "E"

\* (a variant that lets an ordered comparator through on a 'string' column)
IsPassOrderedTypes_string_too == {"int", "string"}

\* the column types is_pass lets a comparator other than '=' through: none of
\* the schema's types ('string', 'number', 'datetime', 'json')
IsPassOrderedTypes == {"int"}

\* WhereCondition.is_pass: "T" or "F", "E" when it raises
is_pass(self, row, col_defs) ==
    LET col_index == get_col_index(self.col_name, col_defs)
    IN  IF col_index = NoIndex THEN "E"
        ELSE LET col_type == col_defs[col_index + 1].type
                 col_value == IF col_index < Len(row)
                              THEN convert_to_value(row[col_index + 1], col_type)
                              ELSE None
             IN  IF col_type = "json" THEN "E"
                 ELSE IF self.comparator # "=" /\ col_type \notin IsPassOrderedTypes THEN "E"
                 ELSE IF col_value = Raised THEN "E"
                 ELSE IF self.comparator = "=" THEN (IF col_value = self.value THEN "T" ELSE "F")
                 ELSE IF self.comparator = "<=" THEN PyLess(col_value, self.value, TRUE)
                 ELSE IF self.comparator = "<" THEN PyLess(col_value, self.value, FALSE)
                 ELSE IF self.comparator = ">" THEN PyLess(self.value, col_value, FALSE)
                 ELSE IF self.comparator = ">=" THEN PyLess(self.value, col_value, TRUE)
                 ELSE "E"

----------------------------------------------------------------------------
(* Table: the pure part.  A table is the record                            *)
(* [col_defs, initial_rows, inserted_rows, deleted_initial_row_indexes,    *)
(*  updated_initial_row_indexes].                                          *)

Range(seq) == {seq[i] : i \in 1..Len(seq)}

col_names(col_defs) == {col_defs[i].name : i \in 1..Len(col_defs)}

\* Table.__init__ (its arguments not None, the value range row-major)
Table(spreadsheet_id, value_range, col_defs) ==
    [spreadsheet_id |-> spreadsheet_id,
     col_defs |-> col_defs,
     initial_rows |-> value_range.values,
     inserted_rows |-> <<>>,
     deleted_initial_row_indexes |-> {},
     updated_initial_row_indexes |-> {}]

\* the list comprehension [x for x in seq if keep(x)]
RECURSIVE FilterSeq(_, _)
FilterSeq(seq, keep) ==
    IF seq = <<>> THEN <<>>
    ELSE (IF keep[1] THEN <<seq[1]>> ELSE <<>>) \o FilterSeq(Tail(seq), Tail(keep))

\* (a variant that puts the inserted rows first)
get_effective_rows_inserted_first(self) ==
    self.inserted_rows
    \o FilterSeq(self.initial_rows,
                 [i \in 1..Len(self.initial_rows) |->
                      (i - 1) \notin self.deleted_initial_row_indexes])

\* (a variant that forgets the deleted indexes)
get_effective_rows_keeps_deleted(self) == self.initial_rows \o self.inserted_rows

get_effective_rows(self) ==
    FilterSeq(self.initial_rows,
              [i \in 1..Len(self.initial_rows) |->
                   (i - 1) \notin self.deleted_initial_row_indexes])
    \o self.inserted_rows

\* all([condition.is_pass(row, col_defs) for condition in where_conditions]):
\* the list is built whole, so one condition that raises makes the call raise
is_where_conditions_passed(col_defs, row, where_conditions) ==
    LET res == [c \in 1..Len(where_conditions) |-> is_pass(where_conditions[c], row, col_defs)]
    IN  IF \E c \in 1..Len(where_conditions) : res[c] = "E" THEN "E"
        ELSE IF \A c \in 1..Len(where_conditions) : res[c] = "T" THEN "T"
        ELSE "F"

num_rows(self) == Len(get_effective_rows(self))

\* (a variant that filters the rows even when no column is asked for)
select_filters_without_names(self, names, where_conditions, is_row_base) ==
    IF ~(Range(names) \subseteq col_names(self.col_defs))
    THEN [raised |-> TRUE, result |-> <<>>]
    ELSE
      LET effective_rows == get_effective_rows(self)
          passed == [r \in 1..Len(effective_rows) |->
                        is_where_conditions_passed(self.col_defs, effective_rows[r],
                                                   where_conditions)]
          filtered_rows == FilterSeq(effective_rows,
                                     [r \in 1..Len(effective_rows) |-> passed[r] = "T"])
          cell(row, name) ==
              LET i == get_col_index(name, self.col_defs)
              IN  convert_to_value(get_or_default(row, i, None), self.col_defs[i + 1].type)
      IN  IF \E r \in 1..Len(effective_rows) : passed[r] = "E"
          THEN [raised |-> TRUE, result |-> <<>>]
          ELSE IF \E r \in 1..Len(filtered_rows) :
                     \E name \in Range(names) : cell(filtered_rows[r], name) = Raised
          THEN [raised |-> TRUE, result |-> <<>>]
          ELSE IF is_row_base
          THEN [raised |-> FALSE,
                result |-> [r \in 1..Len(filtered_rows) |->
                               [name \in Range(names) |-> cell(filtered_rows[r], name)]]]
          ELSE [raised |-> FALSE,
                result |-> [name \in Range(names) |->
                               [r \in 1..Len(filtered_rows) |-> cell(filtered_rows[r], name)]]]

\* Table.select: [raised, result]; result is a sequence of name -> value
\* mappings when is_row_base, a mapping name -> sequence of values otherwise
select(self, names, where_conditions, is_row_base) ==
    IF ~(Range(names) \subseteq col_names(self.col_defs))
    THEN [raised |-> TRUE, result |-> <<>>]
    ELSE IF Len(names) = 0
    THEN [raised |-> FALSE, result |-> <<>>]
    ELSE
      LET effective_rows == get_effective_rows(self)
          passed == [r \in 1..Len(effective_rows) |->
                        is_where_conditions_passed(self.col_defs, effective_rows[r],
                                                   where_conditions)]
          filtered_rows == FilterSeq(effective_rows,
                                     [r \in 1..Len(effective_rows) |-> passed[r] = "T"])
          cell(row, name) ==
              LET i == get_col_index(name, self.col_defs)
              IN  convert_to_value(get_or_default(row, i, None), self.col_defs[i + 1].type)
      IN  IF \E r \in 1..Len(effective_rows) : passed[r] = "E"
          THEN [raised |-> TRUE, result |-> <<>>]
          ELSE IF \E r \in 1..Len(filtered_rows) :
                     \E name \in Range(names) : cell(filtered_rows[r], name) = Raised
          THEN [raised |-> TRUE, result |-> <<>>]
          ELSE IF is_row_base
          THEN [raised |-> FALSE,
                result |-> [r \in 1..Len(filtered_rows) |->
                               [name \in Range(names) |-> cell(filtered_rows[r], name)]]]
          ELSE [raised |-> FALSE,
                result |-> [name \in Range(names) |->
                               [r \in 1..Len(filtered_rows) |-> cell(filtered_rows[r], name)]]]

\* (a variant whose select makes the effective rows the base rows)
select_call_folds(self, names, where_conditions, is_row_base) ==
    CHOOSE call \in {[raised |-> s.raised, result |-> s.result,
                       self |-> [self EXCEPT !.initial_rows = get_effective_rows(self),
                                             !.inserted_rows = <<>>,
                                             !.deleted_initial_row_indexes = {}]] :
                        s \in {select(self, names, where_conditions, is_row_base)}} : TRUE

\* select as a method call: what it returns and the Table it leaves.  select
\* assigns no field of self and changes no list of it in place
select_call(self, names, where_conditions, is_row_base) ==
    CHOOSE call \in {[raised |-> s.raised, result |-> s.result, self |-> self] :
                        s \in {select(self, names, where_conditions, is_row_base)}} : TRUE

\* num_rows as a method call, likewise
num_rows_call(self) == [result |-> num_rows(self), self |-> self]

\* (a variant that puts the new row before the rows inserted earlier)
insert_row_first(self, row_data) ==
    IF ~(DOMAIN row_data \subseteq col_names(self.col_defs))
    THEN [raised |-> TRUE, self |-> self]
    ELSE [raised |-> FALSE,
          self |-> [self EXCEPT !.inserted_rows =
                       <<[c \in 1..Len(self.col_defs) |->
                             IF self.col_defs[c].name \in DOMAIN row_data
                             THEN row_data[self.col_defs[c].name]
                             ELSE None]>> \o @]]

\* (a variant that leaves out the columns not named instead of filling None)
insert_named_only(self, row_data) ==
    IF ~(DOMAIN row_data \subseteq col_names(self.col_defs))
    THEN [raised |-> TRUE, self |-> self]
    ELSE [raised |-> FALSE,
          self |-> [self EXCEPT !.inserted_rows =
                       Append(@, FilterSeq([c \in 1..Len(self.col_defs) |->
                                               IF self.col_defs[c].name \in DOMAIN row_data
                                               THEN row_data[self.col_defs[c].name]
                                               ELSE None],
                                           [c \in 1..Len(self.col_defs) |->
                                               self.col_defs[c].name \in DOMAIN row_data]))]]

\* Table.insert: row_data maps column names to values.  [raised, self]
insert(self, row_data) ==
    IF ~(DOMAIN row_data \subseteq col_names(self.col_defs))
    THEN [raised |-> TRUE, self |-> self]
    ELSE [raised |-> FALSE,
          self |-> [self EXCEPT !.inserted_rows =
                       Append(@, [c \in 1..Len(self.col_defs) |->
                                     IF self.col_defs[c].name \in DOMAIN row_data
                                     THEN row_data[self.col_defs[c].name]
                                     ELSE None])]]

\* the inner loop of update's update_rows on one row: row[col_index] = value for
\* every named column, in column order; IndexError at the first named column
\* the row is too short for, the cells before it already written
update_row(row, col_defs, row_data) ==
    [raised |-> \E c \in 1..Len(col_defs) :
                    col_defs[c].name \in DOMAIN row_data /\ c > Len(row),
     row |-> [c \in 1..Len(row) |->
                 IF c <= Len(col_defs) /\ col_defs[c].name \in DOMAIN row_data
                 THEN row_data[col_defs[c].name]
                 ELSE row[c]]]

\* update's local update_rows(rows, row_indexes, col_defs): the rows are changed
\* in place, in the order of row_indexes, up to the row that raises
RECURSIVE update_rows_local(_, _, _, _)
update_rows_local(rows, row_indexes, col_defs, row_data) ==
    IF row_indexes = <<>> THEN [raised |-> FALSE, rows |-> rows]
    ELSE LET one == update_row(rows[row_indexes[1] + 1], col_defs, row_data)
             written == [rows EXCEPT ![row_indexes[1] + 1] = one.row]
         IN  IF one.raised THEN [raised |-> TRUE, rows |-> written]
             ELSE update_rows_local(written, Tail(row_indexes), col_defs, row_data)

\* the indexes 0..Len(rows)-1 for which keep holds, ascending
matched_indexes(rows, keep) ==
    FilterSeq([i \in 1..Len(rows) |-> i - 1], [i \in 1..Len(rows) |-> keep[i - 1]])

\* whether evaluating where_conditions raises on some row of rows
conditions_raise(col_defs, rows, where_conditions) ==
    \E i \in 1..Len(rows) : is_where_conditions_passed(col_defs, rows[i], where_conditions) = "E"

\* (a variant that does not skip the base rows already deleted)
update_deleted_too(self, row_data, where_conditions) ==
    IF ~(DOMAIN row_data \subseteq col_names(self.col_defs))
    THEN [raised |-> TRUE, self |-> self]
    ELSE IF conditions_raise(self.col_defs, self.initial_rows, where_conditions)
    THEN [raised |-> TRUE, self |-> self]
    ELSE
      LET matched_initial_row_indexes ==
              matched_indexes(self.initial_rows,
                  [i \in 0..(Len(self.initial_rows) - 1) |->
                      is_where_conditions_passed(self.col_defs, self.initial_rows[i + 1],
                                                 where_conditions) = "T"])
          initial == update_rows_local(self.initial_rows, matched_initial_row_indexes,
                                       self.col_defs, row_data)
          s1 == [self EXCEPT !.initial_rows = initial.rows]
          s2 == [s1 EXCEPT !.updated_initial_row_indexes =
                               @ \cup Range(matched_initial_row_indexes)]
          matched_inserted_row_indexes ==
              matched_indexes(self.inserted_rows,
                  [i \in 0..(Len(self.inserted_rows) - 1) |->
                      is_where_conditions_passed(self.col_defs, self.inserted_rows[i + 1],
                                                 where_conditions) = "T"])
          inserted == update_rows_local(self.inserted_rows, matched_inserted_row_indexes,
                                        self.col_defs, row_data)
      IN  IF initial.raised THEN [raised |-> TRUE, self |-> s1]
          ELSE IF conditions_raise(self.col_defs, self.inserted_rows, where_conditions)
          THEN [raised |-> TRUE, self |-> s2]
          ELSE [raised |-> inserted.raised,
                self |-> [s2 EXCEPT !.inserted_rows = inserted.rows]]

\* Table.update.  [raised, self]: self is the table as the call leaves it, also
\* when it raises part of the way
update(self, row_data, where_conditions) ==
    IF ~(DOMAIN row_data \subseteq col_names(self.col_defs))
    THEN [raised |-> TRUE, self |-> self]
    ELSE IF conditions_raise(self.col_defs, self.initial_rows, where_conditions)
    THEN [raised |-> TRUE, self |-> self]
    ELSE
      LET matched_initial_row_indexes ==
              matched_indexes(self.initial_rows,
                  [i \in 0..(Len(self.initial_rows) - 1) |->
                      is_where_conditions_passed(self.col_defs, self.initial_rows[i + 1],
                                                 where_conditions) = "T"
                      /\ i \notin self.deleted_initial_row_indexes])
          initial == update_rows_local(self.initial_rows, matched_initial_row_indexes,
                                       self.col_defs, row_data)
          s1 == [self EXCEPT !.initial_rows = initial.rows]
          s2 == [s1 EXCEPT !.updated_initial_row_indexes =
                               @ \cup Range(matched_initial_row_indexes)]
          matched_inserted_row_indexes ==
              matched_indexes(self.inserted_rows,
                  [i \in 0..(Len(self.inserted_rows) - 1) |->
                      is_where_conditions_passed(self.col_defs, self.inserted_rows[i + 1],
                                                 where_conditions) = "T"])
          inserted == update_rows_local(self.inserted_rows, matched_inserted_row_indexes,
                                        self.col_defs, row_data)
      IN  IF initial.raised THEN [raised |-> TRUE, self |-> s1]
          ELSE IF conditions_raise(self.col_defs, self.inserted_rows, where_conditions)
          THEN [raised |-> TRUE, self |-> s2]
          ELSE [raised |-> inserted.raised,
                self |-> [s2 EXCEPT !.inserted_rows = inserted.rows]]

\* (a variant that leaves the inserted rows alone)
delete_inserted_rows_kept(col_defs, rows, where_conditions) == rows

\* the last statement of delete: the inserted rows that do not match
delete_inserted_rows(col_defs, rows, where_conditions) ==
    FilterSeq(rows, [i \in 1..Len(rows) |->
        is_where_conditions_passed(col_defs, rows[i], where_conditions) # "T"])

\* Table.delete.  [raised, self], as for update
delete(self, where_conditions) ==
    IF conditions_raise(self.col_defs, self.initial_rows, where_conditions)
    THEN [raised |-> TRUE, self |-> self]
    ELSE
      LET matched_initial_row_indexes ==
              matched_indexes(self.initial_rows,
                  [i \in 0..(Len(self.initial_rows) - 1) |->
                      is_where_conditions_passed(self.col_defs, self.initial_rows[i + 1],
                                                 where_conditions) = "T"
                      /\ i \notin self.deleted_initial_row_indexes])
          s1 == [self EXCEPT !.deleted_initial_row_indexes =
                               @ \cup Range(matched_initial_row_indexes)]
      IN  IF conditions_raise(self.col_defs, self.inserted_rows, where_conditions)
          THEN [raised |-> TRUE, self |-> s1]
          ELSE [raised |-> FALSE,
                self |-> [s1 EXCEPT !.inserted_rows =
                             delete_inserted_rows(self.col_defs, @, where_conditions)]]

----------------------------------------------------------------------------
(* google_services: the requests the three writers build *)

\* the width limit of _convert_to_a1
MaxColIndex == 255

column_index_mapping ==
    <<"A", "B", "C", "D", "E", "F", "G", "H", "I", "J", "K", "L", "M",
      "N", "O", "P", "Q", "R", "S", "T", "U", "V", "W", "X", "Y", "Z">>

\* (a variant that prints the 0-based row index)
convert_to_a1_zero_based(row_index, col_index) ==
    IF row_index = None /\ col_index = None THEN [raised |-> TRUE, text |-> ""]
    ELSE IF (row_index # None /\ row_index.n < 0) \/ (col_index # None /\ col_index.n < 0)
    THEN [raised |-> TRUE, text |-> ""]
    ELSE IF col_index # None /\ col_index.n > MaxColIndex THEN [raised |-> TRUE, text |-> ""]
    ELSE
      LET row_component == IF row_index # None THEN ToString(row_index.n) ELSE ""
          num_letters == Len(column_index_mapping)
          first_letter_index == (col_index.n \div num_letters) - 1
          second_letter_index == col_index.n % num_letters
          col_component ==
              IF col_index = None THEN ""
              ELSE IF first_letter_index >= 0
              THEN column_index_mapping[first_letter_index + 1]
                   \o column_index_mapping[second_letter_index + 1]
              ELSE column_index_mapping[second_letter_index + 1]
      IN  [raised |-> FALSE, text |-> col_component \o row_component]

\* (a variant that takes the first letter without subtracting one)
convert_to_a1_first_letter_not_shifted(row_index, col_index) ==
    IF row_index = None /\ col_index = None THEN [raised |-> TRUE, text |-> ""]
    ELSE IF (row_index # None /\ row_index.n < 0) \/ (col_index # None /\ col_index.n < 0)
    THEN [raised |-> TRUE, text |-> ""]
    ELSE IF col_index # None /\ col_index.n > MaxColIndex THEN [raised |-> TRUE, text |-> ""]
    ELSE
      LET row_component == IF row_index # None THEN ToString(row_index.n + 1) ELSE ""
          num_letters == Len(column_index_mapping)
          first_letter_index == (col_index.n \div num_letters)
          second_letter_index == col_index.n % num_letters
          col_component ==
              IF col_index = None THEN ""
              ELSE IF first_letter_index >= 1
              THEN column_index_mapping[first_letter_index + 1]
                   \o column_index_mapping[second_letter_index + 1]
              ELSE column_index_mapping[second_letter_index + 1]
      IN  [raised |-> FALSE, text |-> col_component \o row_component]

\* _convert_to_a1: each index is None or a number.  [raised, text]
convert_to_a1(row_index, col_index) ==
    IF row_index = None /\ col_index = None THEN [raised |-> TRUE, text |-> ""]
    ELSE IF (row_index # None /\ row_index.n < 0) \/ (col_index # None /\ col_index.n < 0)
    THEN [raised |-> TRUE, text |-> ""]
    ELSE IF col_index # None /\ col_index.n > MaxColIndex THEN [raised |-> TRUE, text |-> ""]
    ELSE
      LET row_component == IF row_index # None THEN ToString(row_index.n + 1) ELSE ""
          num_letters == Len(column_index_mapping)
          first_letter_index == (col_index.n \div num_letters) - 1
          second_letter_index == col_index.n % num_letters
          col_component ==
              IF col_index = None THEN ""
              ELSE IF first_letter_index >= 0
              THEN column_index_mapping[first_letter_index + 1]
                   \o column_index_mapping[second_letter_index + 1]
              ELSE column_index_mapping[second_letter_index + 1]
      IN  [raised |-> FALSE, text |-> col_component \o row_component]

clean_values(values) ==
    [i \in 1..Len(values) |-> IF values[i] # None THEN values[i] ELSE Str("")]

\* update_rows: rows_data is a set of [index, values].  [raised, data]: data is
\* the request's value ranges, each [first, last, values] with first and last
\* the A1 texts of the range's corners
update_rows(rows_data) ==
    LET first(d) == convert_to_a1(Num(d.index), Num(0))
        lastc(d) == convert_to_a1(Num(d.index), Num(Len(d.values) - 1))
    IN  IF \E d \in rows_data : first(d).raised \/ lastc(d).raised
        THEN [raised |-> TRUE, data |-> {}]
        ELSE [raised |-> FALSE,
              data |-> {[first |-> first(d).text, last |-> lastc(d).text,
                         values |-> clean_values(d.values)] : d \in rows_data}]

\* sorted(list(row_indexes_set))
RECURSIVE sorted(_)
sorted(set) ==
    IF set = {} THEN <<>>
    ELSE LET least == CHOOSE x \in set : \A y \in set : x <= y
         IN  <<least>> \o sorted(set \ {least})

\* (a variant that starts a new run at every index)
RECURSIVE continuous_runs_never_joined(_, _)
continuous_runs_never_joined(row_indexes_list, continuous) ==
    IF row_indexes_list = <<>> THEN <<continuous>>
    ELSE <<continuous>> \o continuous_runs_never_joined(Tail(row_indexes_list),
                                                        <<row_indexes_list[1]>>)

\* the loop of delete_rows over the sorted indexes: the runs of consecutive
\* indexes, `continuous` being the run under construction
RECURSIVE continuous_runs(_, _)
continuous_runs(row_indexes_list, continuous) ==
    IF row_indexes_list = <<>> THEN <<continuous>>
    ELSE IF continuous[Len(continuous)] = row_indexes_list[1] - 1
    THEN continuous_runs(Tail(row_indexes_list), Append(continuous, row_indexes_list[1]))
    ELSE <<continuous>> \o continuous_runs(Tail(row_indexes_list), <<row_indexes_list[1]>>)

\* delete_rows: the deleteDimension ranges of the request, in request order
\* (called by commit with a non-empty set only)
delete_rows(row_indexes_set) ==
    LET row_indexes_list == sorted(row_indexes_set)
        continuous_row_indexes ==
            IF Len(row_indexes_list) > 1
            THEN continuous_runs(Tail(row_indexes_list), <<row_indexes_list[1]>>)
            ELSE <<row_indexes_list>>
    IN  [r \in 1..Len(continuous_row_indexes) |->
            [startIndex |-> continuous_row_indexes[r][1],
             endIndex |-> continuous_row_indexes[r][Len(continuous_row_indexes[r])] + 1]]

\* insert_rows: the rows of the append request
insert_rows(rows_data) == [r \in 1..Len(rows_data) |-> clean_values(rows_data[r])]

----------------------------------------------------------------------------
(* The spreadsheet the requests act on: a sequence of rows, each `width`    *)
(* cells wide, an empty cell being ''; rows below the last row that holds   *)
(* a value are not kept.                                                    *)

blank_row(width) == [c \in 1..width |-> Str("")]

is_blank(row) == \A c \in 1..Len(row) : row[c] = Str("")

RECURSIVE trim_rows(_)
trim_rows(rows) ==
    IF rows = <<>> THEN <<>>
    ELSE IF is_blank(rows[Len(rows)]) THEN trim_rows(SubSeq(rows, 1, Len(rows) - 1))
    ELSE rows

RECURSIVE trim_cells(_)
trim_cells(row) ==
    IF row = <<>> THEN <<>>
    ELSE IF row[Len(row)] = Str("") THEN trim_cells(SubSeq(row, 1, Len(row) - 1))
    ELSE row

\* the (row, column) a cell's A1 text names, among the cells of the grid
a1_cell(text, width) ==
    CHOOSE rc \in (0..(MaxRows - 1)) \X (0..(width - 1)) :
        convert_to_a1(Num(rc[1]), Num(rc[2])).text = text

\* spreadsheets.values.get over whole columns, as get_columns_values asks:
\* formatted values (text), trailing empty cells and rows left out
store_read(rows) ==
    [majorDimension |-> "ROWS",
     values |-> [r \in 1..Len(trim_rows(rows)) |->
                    LET row == trim_cells(rows[r])
                    IN  [c \in 1..Len(row) |-> str(row[c])]]]

\* spreadsheets.values.batchUpdate: each value range written over the cells it
\* names, the sheet growing when the row lies below the last one
RECURSIVE store_update(_, _, _)
store_update(rows, data, width) ==
    IF data = {} THEN trim_rows(rows)
    ELSE LET d == CHOOSE x \in data : TRUE
             r == a1_cell(d.first, width)[1]
             c0 == a1_cell(d.first, width)[2]
             grown == [i \in 1..(IF r + 1 > Len(rows) THEN r + 1 ELSE Len(rows)) |->
                          IF i <= Len(rows) THEN rows[i] ELSE blank_row(width)]
             written == [grown EXCEPT ![r + 1] =
                            [c \in 1..width |->
                                IF c - 1 >= c0 /\ c - c0 <= Len(d.values)
                                THEN d.values[c - c0] ELSE @[c]]]
         IN  store_update(written, data \ {d}, width)

\* the rows left when the rows of [startIndex, endIndex) are removed
delete_range(rows, range) ==
    FilterSeq(rows, [i \in 1..Len(rows) |->
                        ~(range.startIndex <= i - 1 /\ i - 1 < range.endIndex)])

RECURSIVE delete_sequential(_, _)
delete_sequential(rows, ranges) ==
    IF ranges = <<>> THEN rows
    ELSE delete_sequential(delete_range(rows, ranges[1]), Tail(ranges))

BatchPolicies == {"snapshot", "sequential"}

\* spreadsheets.batchUpdate with deleteDimension requests.  "sequential": each
\* request acts on the rows the one before it left; "snapshot": every range
\* names rows by their position before the batch
store_delete(rows, ranges, batch_policy) ==
    trim_rows(
        IF batch_policy = "sequential" THEN delete_sequential(rows, ranges)
        ELSE FilterSeq(rows, [i \in 1..Len(rows) |->
                 ~\E r \in 1..Len(ranges) :
                     ranges[r].startIndex <= i - 1 /\ i - 1 < ranges[r].endIndex]))

\* spreadsheets.values.append: the rows added below the last row that holds a value
store_append(rows, values, width) ==
    trim_rows(rows \o [r \in 1..Len(values) |->
                          [c \in 1..width |->
                              IF c <= Len(values[r]) THEN values[r][c] ELSE Str("")]])

----------------------------------------------------------------------------
(* Table.commit *)

FailPoints == {"none", "update_rows", "delete_rows", "insert_rows"}

NoCall == [fn |-> "", status |-> "", rows_data |-> {}, data |-> {},
           row_indexes_set |-> {}, ranges |-> <<>>, rows |-> <<>>, values |-> <<>>]

\* (a variant that deletes before it updates)
commit_steps_delete_first == <<"delete_rows", "update_rows", "insert_rows">>

\* the order of the three blocks of commit
commit_steps == <<"update_rows", "delete_rows", "insert_rows">>

\* the guard of each block: len(pending) > 0
has_pending(self, fn) ==
    IF fn = "update_rows" THEN Cardinality(self.updated_initial_row_indexes) > 0
    ELSE IF fn = "delete_rows" THEN Cardinality(self.deleted_initial_row_indexes) > 0
    ELSE Len(self.inserted_rows) > 0

\* (a variant that addresses each row one position too low in the sheet)
commit_rows_data_off_by_one(self) ==
    {[index |-> i + 1, values |-> self.initial_rows[i + 1]] :
         i \in self.updated_initial_row_indexes}

\* the rows_data commit hands to update_rows: one entry per updated index
commit_rows_data(self) ==
    {[index |-> i, values |-> self.initial_rows[i + 1]] :
         i \in self.updated_initial_row_indexes}

\* one block of commit: the call it makes and the store once the call has
\* succeeded.  raised: the writer raised before sending anything
commit_call(self, fn, rows, batch_policy) ==
    LET width == Len(self.col_defs)
    IN  IF fn = "update_rows"
        THEN LET upd == update_rows(commit_rows_data(self))
             IN  [raised |-> upd.raised,
                  call |-> [NoCall EXCEPT !.fn = fn, !.rows_data = commit_rows_data(self),
                                          !.data = upd.data],
                  store |-> IF upd.raised THEN rows ELSE store_update(rows, upd.data, width)]
        ELSE IF fn = "delete_rows"
        THEN LET ranges == delete_rows(self.deleted_initial_row_indexes)
             IN  [raised |-> FALSE,
                  call |-> [NoCall EXCEPT !.fn = fn,
                               !.row_indexes_set = self.deleted_initial_row_indexes,
                               !.ranges = ranges],
                  store |-> store_delete(rows, ranges, batch_policy)]
        ELSE LET values == insert_rows(self.inserted_rows)
             IN  [raised |-> FALSE,
                  call |-> [NoCall EXCEPT !.fn = fn, !.rows = self.inserted_rows,
                                          !.values = values],
                  store |-> store_append(rows, values, width)]

\* (a variant that drops the pending sets when a call fails)
commit_failed_clears(self) ==
    [self EXCEPT !.inserted_rows = <<>>,
                 !.deleted_initial_row_indexes = {},
                 !.updated_initial_row_indexes = {}]

\* the Table after the raise of a block whose call reported an error: the
\* raise comes before any assignment
commit_failed(self) == self

\* (a variant that clears the pending sets and keeps the old base rows)
commit_reset_keeps_base(self) ==
    [self EXCEPT !.inserted_rows = <<>>,
                 !.deleted_initial_row_indexes = {},
                 !.updated_initial_row_indexes = {}]

\* (a variant that does not empty inserted_rows)
commit_reset_keeps_inserted(self) ==
    [self EXCEPT !.initial_rows = get_effective_rows(self),
                 !.deleted_initial_row_indexes = {},
                 !.updated_initial_row_indexes = {}]

\* (a variant that does not empty the two index sets)
commit_reset_keeps_indexes(self) ==
    [self EXCEPT !.initial_rows = get_effective_rows(self),
                 !.inserted_rows = <<>>]

\* the last four assignments of commit
commit_reset(self) ==
    [self EXCEPT !.initial_rows = get_effective_rows(self),
                 !.inserted_rows = <<>>,
                 !.deleted_initial_row_indexes = {},
                 !.updated_initial_row_indexes = {}]

\* (a variant that goes on to the next block after a call reported an error)
RECURSIVE commit_from_goes_on(_, _, _, _, _, _)
commit_from_goes_on(self, steps, rows, batch_policy, fail, issued) ==
    IF steps = <<>>
    THEN IF \E i \in 1..Len(issued) : issued[i].status = "error"
         THEN [raised |-> TRUE, self |-> self, store |-> rows, calls |-> issued]
         ELSE [raised |-> FALSE, self |-> commit_reset(self), store |-> rows, calls |-> issued]
    ELSE IF ~has_pending(self, steps[1])
    THEN commit_from_goes_on(self, Tail(steps), rows, batch_policy, fail, issued)
    ELSE LET c == commit_call(self, steps[1], rows, batch_policy)
         IN  IF c.raised
             THEN [raised |-> TRUE, self |-> self, store |-> rows, calls |-> issued]
             ELSE IF fail = steps[1]
             THEN commit_from_goes_on(self, Tail(steps), rows, batch_policy, fail,
                                      Append(issued, [c.call EXCEPT !.status = "error"]))
             ELSE commit_from_goes_on(self, Tail(steps), c.store, batch_policy, fail,
                                      Append(issued, [c.call EXCEPT !.status = "ok"]))

\* the blocks `steps` of commit, then the reset.  `fail` names the remote call
\* that reports an error status (such a call changes nothing in the store)
RECURSIVE commit_from(_, _, _, _, _, _)
commit_from(self, steps, rows, batch_policy, fail, issued) ==
    IF steps = <<>>
    THEN [raised |-> FALSE, self |-> commit_reset(self), store |-> rows, calls |-> issued]
    ELSE IF ~has_pending(self, steps[1])
    THEN commit_from(self, Tail(steps), rows, batch_policy, fail, issued)
    ELSE LET c == commit_call(self, steps[1], rows, batch_policy)
         IN  IF c.raised
             THEN [raised |-> TRUE, self |-> self, store |-> rows, calls |-> issued]
             ELSE IF fail = steps[1]
             THEN [raised |-> TRUE, self |-> commit_failed(self), store |-> rows,
                   calls |-> Append(issued, [c.call EXCEPT !.status = "error"])]
             ELSE commit_from(self, Tail(steps), c.store, batch_policy, fail,
                              Append(issued, [c.call EXCEPT !.status = "ok"]))

\* Table.commit against the spreadsheet `rows`.  [raised, self, store, calls]:
\* calls are the requests issued, in order
commit(self, rows, batch_policy, fail) ==
    commit_from(self, commit_steps, rows, batch_policy, fail, <<>>)

----------------------------------------------------------------------------
(* SheetsdbSDK: the cache of Table objects.  A Table object is named by its *)
(* position in heap; 0 stands for None.                                     *)

META_DATABASE_NAME == "sheetsdb"

META_TABLE_NAME == "meta"

META_SPREADSHEET_COL_DEFS ==
    <<[name |-> "database_name", type |-> "string"],
      [name |-> "table_name", type |-> "string"],
      [name |-> "spreadsheet_id", type |-> "string"],
      [name |-> "col_defs", type |-> "json"]>>

\* the names of the attributes of a dict that are plain words; hasattr(d, name)
\* holds for these names (and for dunder names, which no database here has)
DictAttributes ==
    {"clear", "copy", "fromkeys", "get", "items", "keys", "pop", "popitem",
     "setdefault", "update", "values"}

hasattr_dict(name) == name \in DictAttributes

\* self._tables.get(database_name, {}).get(table_name)
tables_get(tables, database_name, table_name) ==
    IF database_name \in DOMAIN tables /\ table_name \in DOMAIN tables[database_name]
    THEN tables[database_name][table_name]
    ELSE 0

\* d[key] = value
dict_set(d, key, value) == [x \in DOMAIN d \cup {key} |-> IF x = key THEN value ELSE d[x]]

EmptyDict == [x \in {} |-> 0]

\* the spreadsheets of the account, by id; the one of id "m" is the meta
\* spreadsheet (get_meta_spreadsheet_id).  Two rows of it describe the same
\* table db1.t3, and db1.t4 points to a spreadsheet that is gone
ColDefsText == CHOOSE text \in DOMAIN JsonDocs : TRUE

MetaRow(database_name, table_name, spreadsheet_id) ==
    <<Str(database_name), Str(table_name), Str(spreadsheet_id), Str(ColDefsText)>>

Sheets ==
    [id \in {"m", "s1", "s2"} |->
        IF id = "m"
        THEN <<MetaRow("db1", "t1", "s1"), MetaRow("db1", "t2", "s2"),
               MetaRow("db1", "t3", "s1"), MetaRow("db1", "t3", "s2"),
               MetaRow("db1", "t4", "gone"),
               MetaRow("sheetsdb", "t1", "s1"), MetaRow("items", "t1", "s1")>>
        ELSE IF id = "s1" THEN <<<<Str("x"), Str("1")>>>>
        ELSE <<<<Str("y"), Str("2")>>>>]

\* _create_table_from_spreadsheet: the read is sent unless get_columns_values
\* raises on its column indexes.  [raised, sdk, id]: sdk is [tables, heap,
\* reads], id the new Table
create_table_from_spreadsheet(sdk, spreadsheet_id, col_defs) ==
    LET end == convert_to_a1(None, Num(Len(col_defs) - 1))
        sent == [sdk EXCEPT !.reads =
                    dict_set(@, spreadsheet_id,
                             IF spreadsheet_id \in DOMAIN @ THEN @[spreadsheet_id] + 1 ELSE 1)]
    IN  IF Len(col_defs) - 1 = -1 \/ end.raised
        THEN [raised |-> TRUE, error |-> "ValueError", sdk |-> sdk, id |-> 0]
        ELSE IF spreadsheet_id \notin DOMAIN Sheets
        THEN [raised |-> TRUE, error |-> "SPREADSHEET_NOT_FOUND", sdk |-> sent, id |-> 0]
        ELSE [raised |-> FALSE, error |-> "",
              sdk |-> [sent EXCEPT !.heap =
                          Append(@, Table(spreadsheet_id, store_read(Sheets[spreadsheet_id]),
                                          col_defs))],
              id |-> Len(sdk.heap) + 1]

\* SheetsdbSDK.get_meta_table
get_meta_table(sdk) ==
    IF tables_get(sdk.tables, META_DATABASE_NAME, META_TABLE_NAME) = 0
    THEN LET reset == IF ~hasattr_dict(META_DATABASE_NAME)
                      THEN [sdk EXCEPT !.tables = dict_set(@, META_DATABASE_NAME, EmptyDict)]
                      ELSE sdk
             made == create_table_from_spreadsheet(reset, "m", META_SPREADSHEET_COL_DEFS)
         IN  IF made.raised THEN made
             ELSE IF META_DATABASE_NAME \notin DOMAIN made.sdk.tables
             THEN [made EXCEPT !.raised = TRUE, !.error = "KeyError", !.id = 0]
             ELSE [made EXCEPT !.sdk.tables =
                      dict_set(@, META_DATABASE_NAME,
                               dict_set(@[META_DATABASE_NAME], META_TABLE_NAME, made.id))]
    ELSE [raised |-> FALSE, error |-> "", sdk |-> sdk,
          id |-> sdk.tables[META_DATABASE_NAME][META_TABLE_NAME]]

\* (a variant that takes the first row when several match)
get_table_create_first_of_many(meta, row_based_result, database_name, table_name) ==
    LET row == row_based_result.result[1]
        reset == IF ~hasattr_dict(database_name)
                 THEN [meta.sdk EXCEPT !.tables = dict_set(@, database_name, EmptyDict)]
                 ELSE meta.sdk
        made == create_table_from_spreadsheet(reset, row["spreadsheet_id"].s,
                                              JsonDocs[row["col_defs"].s])
    IN  IF row_based_result.raised
        THEN [raised |-> TRUE, error |-> "ValueError", sdk |-> meta.sdk, id |-> 0]
        ELSE IF Len(row_based_result.result) = 0
        THEN [raised |-> TRUE, error |-> "UNEXPECTED_TABLE_RESULT", sdk |-> meta.sdk, id |-> 0]
        ELSE IF row["spreadsheet_id"] = None \/ row["col_defs"].k # "json"
        THEN [raised |-> TRUE, error |-> "TypeError", sdk |-> reset, id |-> 0]
        ELSE IF made.raised THEN made
        ELSE IF database_name \notin DOMAIN made.sdk.tables
        THEN [made EXCEPT !.raised = TRUE, !.error = "KeyError", !.id = 0]
        ELSE [made EXCEPT !.sdk.tables =
                 dict_set(@, database_name,
                          dict_set(@[database_name], table_name, made.id))]

\* SheetsdbSDK.get_table, lines 192-198: the table built from the row found
get_table_create(meta, row_based_result, database_name, table_name) ==
    LET row == row_based_result.result[1]
        reset == IF ~hasattr_dict(database_name)
                 THEN [meta.sdk EXCEPT !.tables = dict_set(@, database_name, EmptyDict)]
                 ELSE meta.sdk
        made == create_table_from_spreadsheet(reset, row["spreadsheet_id"].s,
                                              JsonDocs[row["col_defs"].s])
    IN  IF row_based_result.raised
        THEN [raised |-> TRUE, error |-> "ValueError", sdk |-> meta.sdk, id |-> 0]
        ELSE IF Len(row_based_result.result) # 1
        THEN [raised |-> TRUE, error |-> "UNEXPECTED_TABLE_RESULT", sdk |-> meta.sdk, id |-> 0]
        ELSE IF row["spreadsheet_id"] = None \/ row["col_defs"].k # "json"
        THEN [raised |-> TRUE, error |-> "TypeError", sdk |-> reset, id |-> 0]
        ELSE IF made.raised THEN made
        ELSE IF database_name \notin DOMAIN made.sdk.tables
        THEN [made EXCEPT !.raised = TRUE, !.error = "KeyError", !.id = 0]
        ELSE [made EXCEPT !.sdk.tables =
                 dict_set(@, database_name,
                          dict_set(@[database_name], table_name, made.id))]

\* SheetsdbSDK.get_table, lines 185-198: the row of the meta table looked up
get_table_lookup(meta, database_name, table_name) ==
    IF meta.raised THEN meta
    ELSE CHOOSE r \in
             {get_table_create(meta, row_based_result, database_name, table_name) :
                 row_based_result \in
                     {select(meta.sdk.heap[meta.id], <<"spreadsheet_id", "col_defs">>,
                             <<WhereCondition("database_name", Str(database_name), "="),
                               WhereCondition("table_name", Str(table_name), "=")>>, TRUE)}} :
             TRUE

\* SheetsdbSDK.get_table
get_table(sdk, database_name, table_name) ==
    IF tables_get(sdk.tables, database_name, table_name) = 0
    THEN CHOOSE r \in {get_table_lookup(meta, database_name, table_name) :
                          meta \in {get_meta_table(sdk)}} : TRUE
    ELSE [raised |-> FALSE, error |-> "", sdk |-> sdk,
          id |-> sdk.tables[database_name][table_name]]

\* SheetsdbSDK.get_num_tables, line 213: the rows of the meta table counted
get_num_tables_count(meta, database_name) ==
    IF meta.raised THEN [raised |-> TRUE, error |-> meta.error, sdk |-> meta.sdk, len |-> 0]
    ELSE CHOOSE r \in
             {[raised |-> row_based_result.raised,
               error |-> IF row_based_result.raised THEN "ValueError" ELSE "",
               sdk |-> meta.sdk, len |-> Len(row_based_result.result)] :
                 row_based_result \in
                     {select(meta.sdk.heap[meta.id], <<"table_name">>,
                             <<WhereCondition("table_name", Str(database_name), "=")>>,
                             TRUE)}} : TRUE

\* SheetsdbSDK.get_num_tables (database_name is not None)
get_num_tables(sdk, database_name) ==
    CHOOSE r \in {get_num_tables_count(meta, database_name) :
                     meta \in {get_meta_table(sdk)}} : TRUE

(* One SheetsdbSDK, driven by one caller *)

\* the (database, table) pairs the caller asks for: two tables of one
\* database, a table described twice, one whose spreadsheet is gone, a table
\* of the database the meta table is cached under, and a database named like
\* an attribute of dict
Requests ==
    {<<"db1", "t1">>, <<"db1", "t2">>, <<"db1", "t3">>, <<"db1", "t4">>,
     <<"sheetsdb", "t1">>, <<"items", "t1">>}

TheSDK == [tables |-> sdk_tables, heap |-> heap, reads |-> sdk_reads]

InitSDKVars ==
    /\ sdk_tables = EmptyDict
    /\ heap = <<>>
    /\ sdk_reads = EmptyDict
    /\ sdk_last = [op |-> "init", database_name |-> "", table_name |-> "",
                   raised |-> FALSE, error |-> "", id |-> 0, len |-> 0]
    /\ first_ref = [pair \in Requests |-> 0]

\* the calls the model follows: at most MaxTables objects built, and at most
\* that many reads of one spreadsheet
WithinBounds(sdk) ==
    /\ Len(sdk.heap) <= MaxTables
    /\ \A id \in DOMAIN sdk.reads : sdk.reads[id] <= MaxTables

SDKBecomes(r) ==
    /\ sdk_tables' = r.sdk.tables
    /\ heap' = r.sdk.heap
    /\ sdk_reads' = r.sdk.reads

GetMetaTable ==
    \E r \in {get_meta_table(TheSDK)} :
        /\ WithinBounds(r.sdk)
        /\ SDKBecomes(r)
        /\ sdk_last' = [op |-> "get_meta_table", database_name |-> "", table_name |-> "",
                        raised |-> r.raised, error |-> r.error, id |-> r.id, len |-> 0]
        /\ UNCHANGED <<first_ref, oneTableVars, evalVars, threadVars>>

GetTable ==
    \E request \in Requests :
      \E r \in {get_table(TheSDK, request[1], request[2])} :
        LET database_name == request[1]
            table_name == request[2]
        IN  /\ WithinBounds(r.sdk)
            /\ SDKBecomes(r)
            /\ sdk_last' = [op |-> "get_table", database_name |-> database_name,
                            table_name |-> table_name,
                            raised |-> r.raised, error |-> r.error, id |-> r.id, len |-> 0]
            /\ first_ref' = IF ~r.raised /\ first_ref[<<database_name, table_name>>] = 0
                            THEN [first_ref EXCEPT ![<<database_name, table_name>>] = r.id]
                            ELSE first_ref
            /\ UNCHANGED <<oneTableVars, evalVars, threadVars>>

\* the databases the caller counts the tables of: the three of the meta
\* spreadsheet, and a name that is a table's, not a database's
DatabaseNames == {"db1", "sheetsdb", "items", "t1"}

GetNumTables ==
    \E database_name \in DatabaseNames :
      \E r \in {get_num_tables(TheSDK, database_name)} :
        /\ WithinBounds(r.sdk)
        /\ SDKBecomes(r)
        /\ sdk_last' = [op |-> "get_num_tables", database_name |-> database_name,
                        table_name |-> "", raised |-> r.raised, error |-> r.error,
                        id |-> 0, len |-> r.len]
        /\ UNCHANGED <<first_ref, oneTableVars, evalVars, threadVars>>

\* the edits the caller makes through the meta table it got from
\* get_meta_table: the rows of spreadsheet s2 deleted, a second row for db1.t1
\* inserted (once)
MetaDeleteCases == {<<WhereCondition("spreadsheet_id", Str("s2"), "=")>>}

MetaInsertCases ==
    {("database_name" :> Str("db1") @@ "table_name" :> Str("t1") @@
      "spreadsheet_id" :> Str("s2") @@ "col_defs" :> Str(ColDefsText))}

MetaId == tables_get(sdk_tables, META_DATABASE_NAME, META_TABLE_NAME)

MetaBecomes(op, r) ==
    /\ heap' = [heap EXCEPT ![MetaId] = r.self]
    /\ sdk_last' = [op |-> op, database_name |-> "", table_name |-> "",
                    raised |-> r.raised, error |-> IF r.raised THEN "ValueError" ELSE "",
                    id |-> MetaId, len |-> 0]
    /\ UNCHANGED <<sdk_tables, sdk_reads, first_ref, oneTableVars, evalVars, threadVars>>

MetaDelete ==
    /\ MetaId # 0
    /\ \E where_conditions \in MetaDeleteCases :
         \E r \in {delete(heap[MetaId], where_conditions)} : MetaBecomes("delete", r)

MetaInsert ==
    /\ MetaId # 0
    /\ \E row_data \in MetaInsertCases :
         \E r \in {insert(heap[MetaId], row_data)} :
            /\ Range(r.self.inserted_rows) # Range(heap[MetaId].inserted_rows)
            /\ MetaBecomes("insert", r)

----------------------------------------------------------------------------
(* One Table over one spreadsheet, driven by one caller *)

\* the schema of the table
ColDefs == <<[name |-> "a", type |-> "string"], [name |-> "b", type |-> "number"]>>

\* the rows a spreadsheet may hold when the Table is built; the second one is
\* read as a row shorter than the schema
StoreRows == {<<Str("x"), Str("1")>>, <<Str("y"), Str("")>>}

RECURSIVE SeqsUpTo(_, _)
SeqsUpTo(S, n) ==
    IF n = 0 THEN {<<>>}
    ELSE SeqsUpTo(S, n - 1)
         \cup {Append(q, x) : q \in {p \in SeqsUpTo(S, n - 1) : Len(p) = n - 1}, x \in S}

\* the arguments the caller passes
InsertData == {("a" :> Str("y")), ("zz" :> Str("x"))}

UpdateData == {("b" :> Num(2)), ("zz" :> Str("x"))}

Conditions ==
    {<<>>,
     <<WhereCondition("a", Str("x"), "=")>>,
     <<WhereCondition("b", Num(2), "=")>>,
     <<WhereCondition("zz", Str("x"), "=")>>}

ColumnLists == {<<"a", "b">>, <<"b">>}

\* the Table object, from the variables that hold its fields
Self ==
    [spreadsheet_id |-> "s1",
     col_defs |-> ColDefs,
     initial_rows |-> initial_rows,
     inserted_rows |-> inserted_rows,
     deleted_initial_row_indexes |-> deleted_initial_row_indexes,
     updated_initial_row_indexes |-> updated_initial_row_indexes]

Becomes(self) ==
    /\ initial_rows' = self.initial_rows
    /\ inserted_rows' = self.inserted_rows
    /\ deleted_initial_row_indexes' = self.deleted_initial_row_indexes
    /\ updated_initial_row_indexes' = self.updated_initial_row_indexes

NoDelete == [valid |-> FALSE, conds |-> <<>>, dropped |-> 0]

NoRetry == [phase |-> "none", expected |-> <<>>]

\* no function is under evaluation
NotApplied ==
    [fn |-> "none", self |-> WhereCondition("", None, "="), row |-> <<>>, col_defs |-> <<>>,
     row_indexes_set |-> {}, row_index |-> None, col_index |-> None]

\* no remote call of the running commit has been made
NothingSent == [rows_data |-> {}, row_indexes_set |-> {}, rows |-> <<>>]

NotReturned == [done |-> FALSE, passed |-> "", ranges |-> <<>>, raised |-> FALSE, text |-> ""]

\* the state once the Table is built from a spreadsheet whose batches of
\* deletions are read as batch_policy says
InitTable(batch_policy) ==
    /\ policy = batch_policy
    /\ LET t == Table("s1", store_read(remote), ColDefs)
       IN  /\ initial_rows = t.initial_rows
           /\ inserted_rows = t.inserted_rows
           /\ deleted_initial_row_indexes = t.deleted_initial_row_indexes
           /\ updated_initial_row_indexes = t.updated_initial_row_indexes
    /\ calls = <<>>
    /\ okRun = 0
    /\ lastDelete = NoDelete
    /\ retry = NoRetry
    /\ InitSDKVars
    /\ pc = "idle"
    /\ carried = NothingSent
    /\ lost = FALSE

InitWith(batch_policy) ==
    /\ remote \in SeqsUpTo(StoreRows, MaxRows)
    /\ InitTable(batch_policy)
    /\ applied = NotApplied
    /\ returned = NotReturned
    /\ locking = FALSE

\* the Sheets API carries out the requests of one batchUpdate one after another
Init == InitWith("sequential")

Insert ==
    \E row_data \in InsertData :
        LET r == insert(Self, row_data)
        IN  /\ r.raised \/ Len(initial_rows) + Len(inserted_rows) < MaxRows
            /\ Becomes(r.self)
            /\ calls' = <<>>
            /\ okRun' = 0
            /\ lastDelete' = NoDelete
            /\ retry' = NoRetry
            /\ UNCHANGED <<remote, policy, sdkVars, evalVars, threadVars>>

Update ==
    \E row_data \in UpdateData, conds \in Conditions :
        LET r == update(Self, row_data, conds)
        IN  /\ Becomes(r.self)
            /\ calls' = <<>>
            /\ okRun' = 0
            /\ lastDelete' = NoDelete
            /\ retry' = NoRetry
            /\ UNCHANGED <<remote, policy, sdkVars, evalVars, threadVars>>

Delete ==
    \E conds \in Conditions :
        LET r == delete(Self, conds)
        IN  /\ Becomes(r.self)
            /\ calls' = <<>>
            /\ okRun' = 0
            /\ lastDelete' = IF r.raised THEN lastDelete
                              ELSE [valid |-> TRUE, conds |-> conds,
                                    dropped |-> Len(inserted_rows) - Len(r.self.inserted_rows)]
            /\ retry' = NoRetry
            /\ UNCHANGED <<remote, policy, sdkVars, evalVars, threadVars>>

Commit ==
    \E fail \in FailPoints :
        LET r == commit(Self, remote, policy, fail)
        IN  /\ fail = "none" \/ r.raised
            /\ Becomes(r.self)
            /\ remote' = r.store
            /\ calls' = r.calls
            /\ okRun' = IF r.raised THEN 0 ELSE IF okRun < 2 THEN okRun + 1 ELSE okRun
            /\ retry' = IF r.raised
                         THEN (IF retry.phase = "none"
                               THEN [phase |-> "failed",
                                     expected |-> commit(Self, remote, policy, "none").store]
                               ELSE [phase |-> "void", expected |-> <<>>])
                         ELSE (IF retry.phase = "failed"
                               THEN [retry EXCEPT !.phase = "retried"]
                               ELSE NoRetry)
            /\ UNCHANGED <<policy, lastDelete, sdkVars, evalVars, threadVars>>

Next == Insert \/ Update \/ Delete \/ Commit

Spec == Init /\ [][Next]_vars

\* the SDK alone: the single Table of Spec stays as built
InitSDK == Init /\ remote = <<>>

NextSDK == GetMetaTable \/ GetTable \/ GetNumTables \/ MetaDelete \/ MetaInsert

SpecSDK == InitSDK /\ [][NextSDK]_vars

----------------------------------------------------------------------------
(* What the claims are stated with *)

\* a step that is a call of commit: it ended well (okRun' > 0) or a call
\* reported an error; insert, update and delete leave okRun' = 0, calls' = <<>>
CommitStep == okRun' >= 1 \/ calls' # <<>>

\* a step that is a call of commit ending with the error of a remote call
CommitFailedStep == calls' # <<>> /\ calls'[Len(calls')].status = "error"

CallsOf(log, fn) == {i \in 1..Len(log) : log[i].fn = fn}

StepRank(fn) ==
    IF fn = "update_rows" THEN 1 ELSE IF fn = "delete_rows" THEN 2 ELSE 3

\* the effective rows, written out from the text of the specification: the
\* base rows whose index is not deleted in ascending index order, then the
\* inserted rows
LiveIndexes == sorted((0..(Len(initial_rows) - 1)) \ deleted_initial_row_indexes)

EffectiveRowsNow ==
    [k \in 1..(Len(LiveIndexes) + Len(inserted_rows)) |->
        IF k <= Len(LiveIndexes) THEN initial_rows[LiveIndexes[k] + 1]
        ELSE inserted_rows[k - Len(LiveIndexes)]]

\* what a row-based select shows of a row
Shown(row, names) ==
    [name \in Range(names) |->
        convert_to_value(get_or_default(row, get_col_index(name, ColDefs), None),
                         ColDefs[get_col_index(name, ColDefs) + 1].type)]

----------------------------------------------------------------------------
(* C1: the remote calls of one commit come in the order update_rows,       *)
(* delete_rows, insert_rows, each at most once, and each only with a       *)
(* non-empty pending set as its argument.                                  *)
C1_CommitCallOrder ==
    /\ \A i, j \in 1..Len(calls) : i < j => StepRank(calls[i].fn) < StepRank(calls[j].fn)
    /\ \A i \in 1..Len(calls) :
           /\ calls[i].fn \in {"update_rows", "delete_rows", "insert_rows"}
           /\ calls[i].fn = "update_rows" => calls[i].rows_data # {}
           /\ calls[i].fn = "delete_rows" => calls[i].row_indexes_set # {}
           /\ calls[i].fn = "insert_rows" => calls[i].rows # <<>>

\* a commit that issued all three calls
C1_Witness ==
    /\ Len(calls) = 3
    /\ \A i \in 1..3 : calls[i].status = "ok"

(* C2: a commit one of whose remote calls reports an error raises and      *)
(* leaves initial_rows, inserted_rows and the two index sets as they were. *)
C2_FailedCommitKeepsState ==
    [][CommitFailedStep =>
          /\ initial_rows' = initial_rows
          /\ inserted_rows' = inserted_rows
          /\ deleted_initial_row_indexes' = deleted_initial_row_indexes
          /\ updated_initial_row_indexes' = updated_initial_row_indexes
          /\ okRun' = 0]_vars

\* after a commit whose third call failed, all three pending sets still hold
C2_Witness ==
    /\ Len(calls) = 3
    /\ calls[3].status = "error"
    /\ inserted_rows # <<>>
    /\ deleted_initial_row_indexes # {}
    /\ updated_initial_row_indexes # {}

(* C4: a commit that succeeds leaves base rows equal to the effective rows *)
(* of just before it, and the three pending sets empty.                    *)
C4_CommitFoldsEffectiveRows ==
    [][okRun' >= 1 =>
          /\ initial_rows' = EffectiveRowsNow
          /\ inserted_rows' = <<>>
          /\ deleted_initial_row_indexes' = {}
          /\ updated_initial_row_indexes' = {}]_vars

\* after a successful commit that deleted and appended rows
C4_Witness ==
    /\ okRun = 1
    /\ CallsOf(calls, "delete_rows") # {}
    /\ CallsOf(calls, "insert_rows") # {}
    /\ Len(initial_rows) >= 2

(* C6: a commit right after a successful commit, no insert, update or      *)
(* delete in between, issues no remote call and changes neither the base   *)
(* rows nor the (empty) pending sets nor the spreadsheet.                  *)
C6_SecondCommitIsIdle ==
    [][(okRun >= 1 /\ CommitStep) =>
          /\ calls' = <<>>
          /\ okRun' >= 1
          /\ initial_rows' = initial_rows
          /\ inserted_rows' = <<>> /\ inserted_rows = <<>>
          /\ deleted_initial_row_indexes' = {} /\ deleted_initial_row_indexes = {}
          /\ updated_initial_row_indexes' = {} /\ updated_initial_row_indexes = {}
          /\ remote' = remote]_vars

\* two successful commits in a row on a table that holds rows
C6_Witness ==
    /\ okRun = 2
    /\ calls = <<>>
    /\ Len(initial_rows) >= 2

(* C3 (as claimed): when a commit fails at one of its calls and the next    *)
(* call of commit, nothing in between, succeeds, the spreadsheet holds the  *)
(* rows one successful commit would have left from the same pending state.  *)
C3_RetryEqualsOneCommit ==
    retry.phase = "retried" => remote = retry.expected

\* the row indexes a sequence of deleteDimension ranges names
RangesCover(ranges) ==
    UNION {ranges[r].startIndex..(ranges[r].endIndex - 1) : r \in 1..Len(ranges)}

(* C7: a commit issues at most one delete_rows call, exactly one when rows *)
(* are marked deleted and its update call did not fail; the ranges of the  *)
(* call cover exactly the deleted indexes, all of them indexes of base     *)
(* rows; the rows appended are the inserted rows of that moment, none of   *)
(* which matches the predicates of the delete before, so a row inserted    *)
(* and then deleted is in no call.                                         *)
C7_DeleteCallCoversDeleted ==
    [][CommitStep =>
          LET D == CallsOf(calls', "delete_rows")
              A == CallsOf(calls', "insert_rows")
              updateFailed == \E i \in CallsOf(calls', "update_rows") :
                                  calls'[i].status = "error"
          IN  /\ Cardinality(D) <= 1
              /\ (deleted_initial_row_indexes # {} /\ ~updateFailed) => Cardinality(D) = 1
              /\ \A i \in D :
                     /\ RangesCover(calls'[i].ranges) = deleted_initial_row_indexes
                     /\ deleted_initial_row_indexes \subseteq 0..(Len(initial_rows) - 1)
              /\ \A i \in A :
                     /\ calls'[i].rows = inserted_rows
                     /\ Len(calls'[i].values) = Len(inserted_rows)
                     /\ lastDelete.valid =>
                            \A k \in 1..Len(calls'[i].rows) :
                                is_where_conditions_passed(ColDefs, calls'[i].rows[k],
                                                           lastDelete.conds) # "T"]_vars

(* C7 (as claimed): every commit with rows marked deleted issues exactly   *)
(* one delete_rows call.                                                   *)
C7_EveryCommitDeletesOnce ==
    [][(CommitStep /\ deleted_initial_row_indexes # {}) =>
          Cardinality(CallsOf(calls', "delete_rows")) = 1]_vars

\* a commit after a delete that took an inserted row away: it updated, deleted
\* and appended
C7_Witness ==
    /\ lastDelete.valid
    /\ lastDelete.dropped >= 1
    /\ Len(calls) = 3
    /\ calls[3].status = "ok"

(* C8: the update batch of a commit has one entry for each updated index   *)
(* and no other; an entry carries the base row as it is at commit time and *)
(* is written at the sheet row of its index, from column A on.             *)
C8_UpdateBatchIsUpdatedRows ==
    [][(CommitStep /\ updated_initial_row_indexes # {}) =>
          /\ calls' # <<>>
          /\ calls'[1].fn = "update_rows"
          /\ \A i \in updated_initial_row_indexes :
                 Cardinality({d \in calls'[1].rows_data : d.index = i}) = 1
          /\ \A d \in calls'[1].rows_data :
                 /\ d.index \in updated_initial_row_indexes
                 /\ d.index \in 0..(Len(initial_rows) - 1)
                 /\ d.values = initial_rows[d.index + 1]
                 /\ \E x \in calls'[1].data :
                        /\ x.first = "A" \o ToString(d.index + 1)
                        /\ x.last = column_index_mapping[Len(d.values)] \o ToString(d.index + 1)
                        /\ Len(x.values) = Len(d.values)
                        /\ \A c \in 1..Len(d.values) :
                               x.values[c] = IF d.values[c] = None THEN Str("") ELSE d.values[c]
          /\ Cardinality(calls'[1].data) = Cardinality(updated_initial_row_indexes)]_vars

\* a commit whose update batch held two rows
C8_Witness ==
    /\ calls # <<>>
    /\ calls[1].fn = "update_rows"
    /\ calls[1].status = "ok"
    /\ Cardinality(calls[1].rows_data) >= 2

(* C9: a select that returns gives, without predicates, one result for     *)
(* each effective row: the base rows not deleted in ascending index order, *)
(* then the inserted rows in insertion order; with predicates, those of    *)
(* these rows that satisfy all of them, in the same order.                 *)
C9_SelectShowsEffectiveRows ==
    \A names \in ColumnLists, conds \in Conditions :
        LET r == select(Self, names, conds, TRUE)
            want == FilterSeq(EffectiveRowsNow,
                        [k \in 1..Len(EffectiveRowsNow) |->
                            is_where_conditions_passed(ColDefs, EffectiveRowsNow[k], conds) = "T"])
        IN  ~r.raised =>
                /\ Len(r.result) = Len(want)
                /\ \A k \in 1..Len(want) : r.result[k] = Shown(want[k], names)
                /\ conds = <<>> =>
                       Len(r.result) = Len(initial_rows)
                                       - Cardinality(deleted_initial_row_indexes)
                                       + Len(inserted_rows)

\* a table with a deleted base row, a live one and an inserted row, of which a
\* select with a predicate returns some rows and not all
C9_Witness ==
    /\ deleted_initial_row_indexes # {}
    /\ inserted_rows # <<>>
    /\ Len(LiveIndexes) >= 1
    /\ \E conds \in Conditions :
           LET r == select(Self, <<"a", "b">>, conds, TRUE)
           IN  ~r.raised /\ Len(r.result) >= 1 /\ Len(r.result) < Len(EffectiveRowsNow)

(* C10: after a delete that returned, and until the next insert or update, *)
(* no effective row satisfies its predicates, before and after a commit:   *)
(* a select with these predicates returns nothing.                         *)
C10_DeletedRowsStayHidden ==
    lastDelete.valid =>
        /\ \A k \in 1..Len(EffectiveRowsNow) :
               is_where_conditions_passed(ColDefs, EffectiveRowsNow[k], lastDelete.conds) # "T"
        /\ \A names \in ColumnLists :
               LET r == select(Self, names, lastDelete.conds, TRUE)
               IN  ~r.raised /\ Len(r.result) = 0

\* after a delete that removed a base row and an inserted row, and the
\* successful commit that followed, with rows left in the table
C10_Witness ==
    /\ lastDelete.valid
    /\ lastDelete.dropped >= 1
    /\ okRun >= 1
    /\ CallsOf(calls, "delete_rows") # {}
    /\ Len(initial_rows) >= 1

(* C5 (as claimed): once get_table(d, t) has returned a Table, the cache    *)
(* keeps that object under (d, t) and every later get_table(d, t) returns   *)
(* it, whatever other tables are fetched in between.                        *)
C5_GetTableKeepsFirstObject ==
    /\ (sdk_last.op = "get_table" /\ ~sdk_last.raised) =>
           sdk_last.id = first_ref[<<sdk_last.database_name, sdk_last.table_name>>]
    /\ \A pair \in Requests :
           first_ref[pair] # 0 => tables_get(sdk_tables, pair[1], pair[2]) = first_ref[pair]

----------------------------------------------------------------------------
(* The Table and its spreadsheet alone: the same four operations with the  *)
(* same arguments, the record of the last commit and of the last delete    *)
(* left out of the state                                                   *)

callVars == <<calls, okRun, lastDelete, retry>>

TableInsert ==
    \E row_data \in InsertData :
        LET r == insert(Self, row_data)
        IN  /\ r.raised \/ Len(initial_rows) + Len(inserted_rows) < MaxRows
            /\ Becomes(r.self)
            /\ UNCHANGED <<remote, policy, callVars, sdkVars, evalVars, threadVars>>

TableUpdate ==
    \E row_data \in UpdateData, conds \in Conditions :
        LET r == update(Self, row_data, conds)
        IN  /\ Becomes(r.self)
            /\ UNCHANGED <<remote, policy, callVars, sdkVars, evalVars, threadVars>>

TableDelete ==
    \E conds \in Conditions :
        LET r == delete(Self, conds)
        IN  /\ Becomes(r.self)
            /\ UNCHANGED <<remote, policy, callVars, sdkVars, evalVars, threadVars>>

TableCommit ==
    \E fail \in FailPoints :
        LET r == commit(Self, remote, policy, fail)
        IN  /\ fail = "none" \/ r.raised
            /\ Becomes(r.self)
            /\ remote' = r.store
            /\ UNCHANGED <<policy, callVars, sdkVars, evalVars, threadVars>>

NextTable == TableInsert \/ TableUpdate \/ TableDelete \/ TableCommit

SpecTable == Init /\ [][NextTable]_vars

----------------------------------------------------------------------------
(* Calls the claims below are stated over *)

\* row_data of insert with every key in the schema: a text for the string
\* column, a numeral and a number for the number column, a number for the
\* string column, both columns, no column, and a text float() rejects
InsertCases ==
    {("a" :> Str("y")), ("b" :> Str("1")), ("b" :> Num(2)), ("a" :> Num(1)),
     ("a" :> Str("x") @@ "b" :> Num(2)), <<>>, ("b" :> Str("x"))}

\* the column lists a caller may select
NameLists == {<<"a">>, <<"b">>, <<"a", "b">>, <<"b", "a">>}

\* the type of the column of ColDefs of that name
TypeOf(name) == ColDefs[get_col_index(name, ColDefs) + 1].type

\* what a select of names shows of the row insert(row_data) appends
Coerced(row_data, names) ==
    [name \in Range(names) |->
        IF name \in DOMAIN row_data THEN convert_to_value(row_data[name], TypeOf(name))
        ELSE None]

(* C11: after insert(row_data) with valid column names, a select of the    *)
(* named columns (or of any column list) that returns has as its last row  *)
(* the inserted values coerced by column type, None for the columns not    *)
(* named; after a successful commit the row is the last base row and       *)
(* inserted_rows is empty.                                                 *)
C11_InsertedRowReadsBack ==
    \A row_data \in InsertCases :
        LET r == insert(Self, row_data)
            c == commit(r.self, remote, policy, "none")
        IN  /\ ~r.raised
            /\ \A names \in NameLists :
                   LET s == select(r.self, names, <<>>, TRUE)
                   IN  ~s.raised =>
                           /\ s.result # <<>>
                           /\ s.result[Len(s.result)] = Coerced(row_data, names)
            /\ ~c.raised
            /\ c.self.inserted_rows = <<>>
            /\ c.self.initial_rows # <<>>
            /\ c.self.initial_rows[Len(c.self.initial_rows)]
                   = r.self.inserted_rows[Len(r.self.inserted_rows)]

\* a table with a base row and an inserted row on which insert({'b': '1'})
\* is read back as the number 1, after the other rows
C11_Witness ==
    /\ initial_rows # <<>>
    /\ inserted_rows # <<>>
    /\ LET s == select(insert(Self, ("b" :> Str("1"))).self, <<"a", "b">>, <<>>, TRUE)
       IN  /\ ~s.raised
           /\ Len(s.result) >= 3
           /\ s.result[Len(s.result)] = ("a" :> None @@ "b" :> Num(1))

(* C12: in every reachable state of the Table, after any insert, update,   *)
(* delete and commit, failed or not, the deleted and the updated indexes   *)
(* are indexes of base rows: subsets of 0..len(initial_rows)-1.            *)
C12_IndexSetsWithinBaseRows ==
    /\ deleted_initial_row_indexes \subseteq 0..(Len(initial_rows) - 1)
    /\ updated_initial_row_indexes \subseteq 0..(Len(initial_rows) - 1)

\* the last of two base rows is marked deleted and updated, with a row
\* inserted too
C12_Witness ==
    /\ Len(initial_rows) >= 2
    /\ (Len(initial_rows) - 1) \in deleted_initial_row_indexes
    /\ (Len(initial_rows) - 1) \in updated_initial_row_indexes
    /\ inserted_rows # <<>>

\* row_data of update: one column, the column the predicates read, both, none,
\* and a key outside the schema
UpdateCases ==
    {("b" :> Num(2)), ("a" :> Str("y")), ("a" :> Str("y") @@ "b" :> Num(1)), <<>>,
     ("zz" :> Str("x"))}

\* where_conditions: none, one on each column, two at once, one on a column
\* outside the schema
ConditionCases ==
    {<<>>,
     <<WhereCondition("a", Str("x"), "=")>>,
     <<WhereCondition("a", Str("y"), "=")>>,
     <<WhereCondition("b", Num(1), "=")>>,
     <<WhereCondition("b", Num(2), "=")>>,
     <<WhereCondition("a", Str("x"), "="), WhereCondition("b", Num(1), "=")>>,
     <<WhereCondition("zz", Str("x"), "=")>>}

\* the Table had its deleted base rows never been there
WithoutDeleted ==
    [Self EXCEPT !.initial_rows = [k \in 1..Len(LiveIndexes) |->
                                      initial_rows[LiveIndexes[k] + 1]],
                 !.deleted_initial_row_indexes = {},
                 !.updated_initial_row_indexes = {}]

(* C13: delete wins.  While a base row is marked deleted, an update,       *)
(* whatever its arguments and whether it returns or raises, neither adds   *)
(* the index to the updated indexes nor changes a cell of the row nor      *)
(* takes the mark away; and every select gives what it would give were the *)
(* row not in the table.                                                   *)
C13_DeleteWins ==
    /\ \A row_data \in UpdateCases, conds \in ConditionCases :
           \E r \in {update(Self, row_data, conds)} :
               \A i \in deleted_initial_row_indexes :
                   /\ r.self.initial_rows[i + 1] = initial_rows[i + 1]
                   /\ i \in r.self.updated_initial_row_indexes
                          => i \in updated_initial_row_indexes
                   /\ i \in r.self.deleted_initial_row_indexes
    /\ deleted_initial_row_indexes # {} =>
           \A names \in NameLists, conds \in ConditionCases :
               select(Self, names, conds, TRUE) = select(WithoutDeleted, names, conds, TRUE)

\* a base row is marked deleted, and an update whose predicates it satisfies
\* changes another row
C13_Witness ==
    \E i \in deleted_initial_row_indexes :
        \E row_data \in UpdateCases, conds \in ConditionCases :
            LET r == update(Self, row_data, conds)
            IN  /\ is_where_conditions_passed(ColDefs, initial_rows[i + 1], conds) = "T"
                /\ ~r.raised
                /\ r.self.initial_rows # initial_rows
                /\ i \notin updated_initial_row_indexes

\* predicates that read columns of the schema only
KnownColumns(conds) ==
    \A c \in 1..Len(conds) : conds[c].col_name \in col_names(ColDefs)

\* a row with exactly the columns named in row_data overwritten, a cell the
\* row is too short for being None before
Overwritten(row, row_data) ==
    LET named == {c \in 1..Len(ColDefs) : ColDefs[c].name \in DOMAIN row_data}
        width == IF named = {} \/ \A c \in named : c <= Len(row) THEN Len(row)
                 ELSE CHOOSE c \in named : \A d \in named : d <= c
    IN  [c \in 1..width |->
            IF c \in named THEN row_data[ColDefs[c].name]
            ELSE get_or_default(row, c - 1, None)]

(* C14 (as claimed): update(row_data, predicates) with keys and predicate  *)
(* columns of the schema returns; it overwrites exactly the named columns  *)
(* in every base row that satisfies the predicates and is not deleted and  *)
(* in every inserted row that satisfies them, leaves every other row as it *)
(* was, adds exactly the matched base indexes to the updated indexes, and  *)
(* leaves the deleted indexes and the number of inserted rows as they were. *)
C14_UpdateOverwritesNamedColumns ==
    \A row_data \in UpdateCases, conds \in ConditionCases :
        (DOMAIN row_data \subseteq col_names(ColDefs) /\ KnownColumns(conds)) =>
            \E r \in {update(Self, row_data, conds)} :
                LET hit(row) == is_where_conditions_passed(ColDefs, row, conds) = "T"
                    matched == {i \in 0..(Len(initial_rows) - 1) :
                                   hit(initial_rows[i + 1])
                                   /\ i \notin deleted_initial_row_indexes}
                IN  /\ ~r.raised
                    /\ Len(r.self.initial_rows) = Len(initial_rows)
                    /\ \A i \in 0..(Len(initial_rows) - 1) :
                           r.self.initial_rows[i + 1] =
                               IF i \in matched THEN Overwritten(initial_rows[i + 1], row_data)
                               ELSE initial_rows[i + 1]
                    /\ r.self.updated_initial_row_indexes
                           = updated_initial_row_indexes \cup matched
                    /\ r.self.deleted_initial_row_indexes = deleted_initial_row_indexes
                    /\ Len(r.self.inserted_rows) = Len(inserted_rows)
                    /\ \A k \in 1..Len(inserted_rows) :
                           r.self.inserted_rows[k] =
                               IF hit(inserted_rows[k]) THEN Overwritten(inserted_rows[k], row_data)
                               ELSE inserted_rows[k]

\* row_data of insert with a key outside the schema, alone and beside a valid key
InsertCasesInvalid == {("zz" :> Str("x")), ("a" :> Str("y") @@ "zz" :> Str("x"))}

(* C15: insert(row_data) with every key in the schema returns and appends  *)
(* one row of len(col_defs) cells to inserted_rows, the given value in     *)
(* each named column and None elsewhere, the rows inserted before, the     *)
(* base rows and both index sets left as they were; with a key outside the *)
(* schema it raises and changes nothing.                                   *)
C15_InsertAppendsOneRow ==
    /\ \A row_data \in InsertCases :
           \E r \in {insert(Self, row_data)} :
               /\ ~r.raised
               /\ Len(r.self.inserted_rows) = Len(inserted_rows) + 1
               /\ SubSeq(r.self.inserted_rows, 1, Len(inserted_rows)) = inserted_rows
               /\ LET row == r.self.inserted_rows[Len(inserted_rows) + 1]
                  IN  /\ Len(row) = Len(ColDefs)
                      /\ \A c \in 1..Len(ColDefs) :
                             row[c] = IF ColDefs[c].name \in DOMAIN row_data
                                      THEN row_data[ColDefs[c].name] ELSE None
               /\ r.self.initial_rows = initial_rows
               /\ r.self.deleted_initial_row_indexes = deleted_initial_row_indexes
               /\ r.self.updated_initial_row_indexes = updated_initial_row_indexes
    /\ \A row_data \in InsertCasesInvalid :
           \E r \in {insert(Self, row_data)} : r.raised /\ r.self = Self

\* a row was inserted, only column a named, into a table with a base row
\* marked deleted and updated
C15_Witness ==
    /\ inserted_rows # <<>>
    /\ inserted_rows[Len(inserted_rows)] = <<Str("y"), None>>
    /\ deleted_initial_row_indexes # {}
    /\ updated_initial_row_indexes # {}

\* every select and num_rows leave the Table as it was
ReadsLeaveTheTable ==
    /\ \A names \in ColumnLists, conds \in Conditions, is_row_base \in BOOLEAN :
           select_call(Self, names, conds, is_row_base).self = Self
    /\ num_rows_call(Self).self = Self
    /\ num_rows_call(Self).result = Len(EffectiveRowsNow)

----------------------------------------------------------------------------
(* WhereCondition.is_pass and delete_rows on their own: the arguments of   *)
(* one application are drawn, then the function is applied to them          *)

\* the largest number a cell or a predicate holds
MaxNumber == 3

\* the largest row index handed to delete_rows
MaxIndex == 10

\* a schema with a column of each type a predicate treats differently
WhereColDefs ==
    <<[name |-> "a", type |-> "string"], [name |-> "b", type |-> "number"],
      [name |-> "c", type |-> "json"]>>

\* what a cell of a row can hold: the text the spreadsheet returned for a
\* base row, the value insert stored for an inserted row
WhereCells(type) ==
    IF type = "string" THEN {None, Str(""), Str("x"), Str("y")}
    ELSE IF type = "number"
    THEN {None, Str(""), Str("x")} \cup {Str(Numerals[i + 1]) : i \in 0..MaxNumber}
                                   \cup {Num(i) : i \in 0..MaxNumber}
    ELSE {Str(""), Str("1"), Str("x")}

\* the rows is_pass is handed: of the schema's width or shorter, the
\* spreadsheet leaving out the empty cells at the end of a row
WhereRows ==
    UNION {[1..n -> UNION {WhereCells(WhereColDefs[c].type) : c \in 1..Len(WhereColDefs)}] :
              n \in 0..Len(WhereColDefs)}

WhereRowsTyped ==
    {row \in WhereRows : \A c \in 1..Len(row) : row[c] \in WhereCells(WhereColDefs[c].type)}

WhereValues == {Str("x"), Str("1")} \cup {Num(i) : i \in 0..MaxNumber}

WhereConditions ==
    {WhereCondition(col_name, value, comparator) :
        col_name \in {"a", "b", "c", "zz"}, value \in WhereValues, comparator \in Comparators}

IsPassApplications ==
    {[NotApplied EXCEPT !.fn = "is_pass", !.self = self, !.row = row,
                        !.col_defs = WhereColDefs] :
        self \in WhereConditions, row \in WhereRowsTyped}

\* commit hands delete_rows a non-empty set
DeleteRowsApplications ==
    {[NotApplied EXCEPT !.fn = "delete_rows", !.row_indexes_set = set] :
        set \in (SUBSET (0..MaxIndex)) \ {{}}}

\* the largest row index handed to _convert_to_a1
MaxRowIndex == 11

\* the indexes _convert_to_a1 is handed: None, negative numbers, and numbers
\* up to the bound (rows) and past the width limit (columns)
A1Indexes(largest) == {None} \cup {Num(i) : i \in -2..largest}

ConvertToA1Applications ==
    {[NotApplied EXCEPT !.fn = "_convert_to_a1", !.row_index = row_index,
                        !.col_index = col_index] :
        row_index \in A1Indexes(MaxRowIndex), col_index \in A1Indexes(MaxColIndex + 2)}

InitEval ==
    /\ remote = <<>>
    /\ InitTable("sequential")
    /\ \/ applied \in IsPassApplications
       \/ applied \in DeleteRowsApplications
       \/ applied \in ConvertToA1Applications
    /\ locking = FALSE
    /\ returned = NotReturned

IsPass ==
    /\ applied.fn = "is_pass"
    /\ returned = NotReturned
    /\ returned' = [NotReturned EXCEPT
                        !.done = TRUE,
                        !.passed = is_pass(applied.self, applied.row, applied.col_defs)]
    /\ UNCHANGED <<applied, oneTableVars, sdkVars, threadVars>>

DeleteRows ==
    /\ applied.fn = "delete_rows"
    /\ returned = NotReturned
    /\ returned' = [NotReturned EXCEPT
                        !.done = TRUE, !.ranges = delete_rows(applied.row_indexes_set)]
    /\ UNCHANGED <<applied, oneTableVars, sdkVars, threadVars>>

ConvertToA1 ==
    /\ applied.fn = "_convert_to_a1"
    /\ returned = NotReturned
    /\ \E r \in {convert_to_a1(applied.row_index, applied.col_index)} :
           returned' = [NotReturned EXCEPT !.done = TRUE, !.raised = r.raised, !.text = r.text]
    /\ UNCHANGED <<applied, oneTableVars, sdkVars, threadVars>>

NextEval == IsPass \/ DeleteRows \/ ConvertToA1

SpecEval == InitEval /\ [][NextEval]_vars


----------------------------------------------------------------------------
(* Claims on WhereCondition.is_pass *)

\* the column a predicate names has this type in the schema is_pass was handed
AppliedColType ==
    IF get_col_index(applied.self.col_name, applied.col_defs) = NoIndex THEN "none"
    ELSE applied.col_defs[get_col_index(applied.self.col_name, applied.col_defs) + 1].type

\* the value is_pass reads from the row: the coerced cell, None past the row's end
AppliedColValue ==
    LET col_index == get_col_index(applied.self.col_name, applied.col_defs)
    IN  IF col_index < Len(applied.row)
        THEN convert_to_value(applied.row[col_index + 1], AppliedColType)
        ELSE None

\* the comparison a comparator stands for, between two numbers
Compares(n, comparator, v) ==
    IF comparator = ">" THEN n > v
    ELSE IF comparator = "<" THEN n < v
    ELSE IF comparator = "<=" THEN n <= v
    ELSE IF comparator = ">=" THEN n >= v
    ELSE n = v

\* C17: a predicate with '>', '<', '<=' or '>=' on a column of type 'number'
\* evaluates without error and passes exactly the rows whose coerced numeric
\* cell satisfies the comparison with the predicate's number
C17_OrderedComparatorOnNumberColumn ==
    (/\ applied.fn = "is_pass"
     /\ returned.done
     /\ applied.self.comparator \in {">", "<", "<=", ">="}
     /\ AppliedColType = "number"
     /\ applied.self.value.k = "num"
     /\ AppliedColValue.k = "num")
        => /\ returned.passed # "E"
           /\ returned.passed = "T" <=>
                  Compares(AppliedColValue.n, applied.self.comparator, applied.self.value.n)


\* C18: evaluating a predicate against a row fails when its column has type
\* 'json', whatever the comparator ('=' included), and fails when the
\* comparator is not '=' and the column has type 'string'; an '=' predicate
\* on a 'string' column never fails, and passes exactly when the coerced
\* cell equals the predicate's value
C18_PredicateErrors ==
    (applied.fn = "is_pass" /\ returned.done)
        => /\ AppliedColType = "json" => returned.passed = "E"
           /\ (AppliedColType = "string" /\ applied.self.comparator # "=")
                  => returned.passed = "E"
           /\ (AppliedColType = "string" /\ applied.self.comparator = "=")
                  => /\ returned.passed \in {"T", "F"}
                     /\ returned.passed = "T" <=> AppliedColValue = applied.self.value

\* an '=' predicate on the json column has failed on a row whose json cell parses
C18_Witness ==
    /\ applied.fn = "is_pass"
    /\ returned.done
    /\ applied.self.col_name = "c"
    /\ applied.self.comparator = "="
    /\ Len(applied.row) = 3
    /\ json_loads(applied.row[3]) # Raised
    /\ returned.passed = "E"


----------------------------------------------------------------------------
(* Claims on a predicate that names no column of the schema *)

\* predicate lists with a predicate on a column the schema does not have
UnknownColumnCases ==
    {<<WhereCondition("zz", Str("x"), "=")>>,
     <<WhereCondition("a", Str("x"), "="), WhereCondition("zz", Str("x"), "=")>>}

\* C19: a select with a non-empty column list, an update and a delete whose
\* predicate names a column absent from the schema fail at that call,
\* whatever the table holds, a table with no base row and no inserted row
\* included
C19_UnknownColumnFailsAtTheCall ==
    \A conds \in UnknownColumnCases :
        /\ \A names \in NameLists : select(Self, names, conds, TRUE).raised
        /\ update(Self, ("b" :> Num(2)), conds).raised
        /\ delete(Self, conds).raised


----------------------------------------------------------------------------
(* Claims on the ranges delete_rows builds *)

\* the row indexes of the half-open range [startIndex, endIndex)
IndexesOf(range) == range.startIndex..(range.endIndex - 1)

\* C20: for every non-empty set S of row indexes, the ranges delete_rows
\* builds are non-empty half-open ranges, pairwise disjoint, ascending by
\* start, with union exactly S, and as few as can be: each range ends
\* strictly before the next one starts, so no two of them could be merged
C20_RangesPartitionTheSet ==
    (applied.fn = "delete_rows" /\ returned.done)
        => LET ranges == returned.ranges
           IN  /\ Len(ranges) >= 1
               /\ \A k \in 1..Len(ranges) : ranges[k].startIndex < ranges[k].endIndex
               /\ \A j, k \in 1..Len(ranges) :
                      j # k => IndexesOf(ranges[j]) \cap IndexesOf(ranges[k]) = {}
               /\ \A k \in 1..(Len(ranges) - 1) :
                      /\ ranges[k].startIndex < ranges[k + 1].startIndex
                      /\ ranges[k].endIndex < ranges[k + 1].startIndex
               /\ UNION {IndexesOf(ranges[k]) : k \in 1..Len(ranges)} = applied.row_indexes_set

\* {1,2,3,7,8,10} has given [1,4), [7,9), [10,11)
C20_Witness ==
    /\ applied.fn = "delete_rows"
    /\ applied.row_indexes_set = {1, 2, 3, 7, 8, 10}
    /\ returned.done
    /\ returned.ranges = <<[startIndex |-> 1, endIndex |-> 4],
                           [startIndex |-> 7, endIndex |-> 9],
                           [startIndex |-> 10, endIndex |-> 11]>>


----------------------------------------------------------------------------
(* Claims on SheetsdbSDK *)

\* the effective rows of the meta table a call works on: those of the cached
\* Table, or of the one the call builds from the meta spreadsheet
MetaRowsNow ==
    IF MetaId # 0 THEN get_effective_rows(heap[MetaId])
    ELSE store_read(Sheets["m"]).values

\* the effective rows of the meta table that describe table_name of database_name
MetaRowsOf(database_name, table_name) ==
    SelectSeq(MetaRowsNow,
              LAMBDA row : row[1] = Str(database_name) /\ row[2] = Str(table_name))

\* a get_table(database_name, table_name) that did not find the table cached
GetTableMissed(database_name, table_name) ==
    /\ sdk_last'.op = "get_table"
    /\ sdk_last'.database_name = database_name
    /\ sdk_last'.table_name = table_name
    /\ tables_get(sdk_tables, database_name, table_name) = 0

\* the call raised UNEXPECTED_TABLE_RESULT, left (database_name, table_name)
\* uncached and built no Table other than a meta table it had to read first
RaisedUnexpectedResult(database_name, table_name) ==
    /\ sdk_last'.raised
    /\ sdk_last'.error = "UNEXPECTED_TABLE_RESULT"
    /\ tables_get(sdk_tables', database_name, table_name) = 0
    /\ Len(heap') = Len(heap) + (IF MetaId = 0 THEN 1 ELSE 0)
    /\ \A id \in (Len(heap) + 1)..Len(heap') : heap'[id].spreadsheet_id = "m"
    /\ \A id \in 1..Len(heap) : heap'[id] = heap[id]

\* the call returned a Table built from the one row found, cached under the names
ReturnedTableOf(row, database_name, table_name) ==
    /\ ~sdk_last'.raised
    /\ sdk_last'.id \in (Len(heap) + 1)..Len(heap')
    /\ heap'[sdk_last'.id].spreadsheet_id = row[3].s
    /\ heap'[sdk_last'.id].col_defs = JsonDocs[row[4].s]
    /\ heap'[sdk_last'.id].initial_rows = store_read(Sheets[row[3].s]).values
    /\ tables_get(sdk_tables', database_name, table_name) = sdk_last'.id

MetaRowsOfDatabase(database_name) ==
    SelectSeq(MetaRowsNow, LAMBDA row : row[1] = Str(database_name))

\* C22: get_num_tables(database_name) returns the number of tables of that
\* database: the number of effective rows of the meta table whose
\* database_name column equals the argument
C22_NumTablesCountsTheDatabase ==
    (sdk_last.op = "get_num_tables" /\ ~sdk_last.raised)
        => sdk_last.len = Len(MetaRowsOfDatabase(sdk_last.database_name))


\* the first Table an SDK builds is its meta table: every call that builds
\* one asks for the meta table first
FirstMetaTable == 1

\* C23: on one SheetsdbSDK the meta table is bootstrapped at most once: the
\* meta spreadsheet is read at most once, and every get_meta_table returns
\* the Table the first bootstrap built, whatever get_table and
\* get_meta_table calls were made, with whatever names
C23_MetaTableBootstrappedOnce ==
    /\ "m" \in DOMAIN sdk_reads => sdk_reads["m"] <= 1
    /\ (sdk_last.op = "get_meta_table" /\ ~sdk_last.raised) => sdk_last.id = FirstMetaTable
    /\ MetaId \in {0, FirstMetaTable}


----------------------------------------------------------------------------
(* Claims on the calls of one commit *)

\* C24: once a remote call of a commit has reported an error, the commit
\* issues no further remote call: a failed update_rows is followed by neither
\* a delete_rows nor an insert_rows call, a failed delete_rows by no
\* insert_rows call
C24_NoCallAfterAFailedCall ==
    \A i \in 1..Len(calls) :
        calls[i].status = "error" =>
            /\ i = Len(calls)
            /\ \A j \in 1..Len(calls) : StepRank(calls[j].fn) <= StepRank(calls[i].fn)

\* the update call of a commit has failed with rows marked deleted and rows
\* inserted still pending, and it is the only call of that commit
C24_Witness ==
    /\ Len(calls) = 1
    /\ calls[1].fn = "update_rows"
    /\ calls[1].status = "error"
    /\ deleted_initial_row_indexes # {}
    /\ inserted_rows # <<>>


----------------------------------------------------------------------------
(* Claims on the column list of select *)

\* column lists with a name the schema does not have
InvalidNameLists == {<<"zz">>, <<"a", "zz">>, <<"zz", "a">>}

\* predicate lists whose evaluation on a row raises: an unknown column, a
\* comparator other than '=', an unknown column after a predicate that passes
FailingConditionCases ==
    {<<WhereCondition("zz", Str("x"), "=")>>,
     <<WhereCondition("b", Num(1), ">")>>,
     <<WhereCondition("a", Str("x"), "="), WhereCondition("zz", Str("x"), "=")>>}

\* C25: select raises when a requested column name is outside the schema;
\* with an empty column list it returns an empty result, row-based or
\* column-based, and evaluates no predicate: predicates that fail on
\* evaluation cause no error then
C25_SelectChecksItsColumnList ==
    /\ \A names \in InvalidNameLists :
           \A where_conditions \in ConditionCases \cup FailingConditionCases :
               \A is_row_base \in BOOLEAN :
                   select(Self, names, where_conditions, is_row_base).raised
    /\ \A where_conditions \in ConditionCases \cup FailingConditionCases :
           \A is_row_base \in BOOLEAN :
               select(Self, <<>>, where_conditions, is_row_base)
                   = [raised |-> FALSE, result |-> <<>>]

\* the table has a row on which a predicate fails: a select of column a with
\* the predicate raises, a select of no column with it returns
C25_Witness ==
    /\ Len(EffectiveRowsNow) > 0
    /\ select(Self, <<"a">>, <<WhereCondition("b", Num(1), ">")>>, TRUE).raised
    /\ ~select(Self, <<>>, <<WhereCondition("b", Num(1), ">")>>, TRUE).raised


----------------------------------------------------------------------------
(* Claims on _convert_to_a1 *)

\* the decimal numeral of a natural number
RECURSIVE Decimal(_)
Decimal(n) ==
    IF n < Len(Numerals) THEN Numerals[n + 1]
    ELSE Decimal(n \div Len(Numerals)) \o Numerals[(n % Len(Numerals)) + 1]

\* C26: for a row index r >= 0 and a column index c in 0..25,
\* _convert_to_a1(r, c) is the letter at position c of A..Z followed by the
\* decimal numeral of r + 1 ((0, 0) gives A1, (4, 2) gives C5); a negative
\* row or column index and a column index above 255 raise
C26_SingleLetterAddresses ==
    (applied.fn = "_convert_to_a1" /\ returned.done)
        => LET r == applied.row_index
               c == applied.col_index
           IN  /\ (r # None /\ c # None /\ r.n >= 0 /\ c.n \in 0..25)
                      => /\ ~returned.raised
                         /\ returned.text = column_index_mapping[c.n + 1] \o Decimal(r.n + 1)
               /\ (r = Num(0) /\ c = Num(0)) => returned.text = "A1"
               /\ (r = Num(4) /\ c = Num(2)) => returned.text = "C5"
               /\ (r = Num(9) /\ c = Num(25)) => returned.text = "Z10"
               /\ ((r # None /\ r.n < 0) \/ (c # None /\ c.n < 0)) => returned.raised
               /\ (c # None /\ c.n > 255) => returned.raised

\* (4, 2) has given C5
C26_Witness ==
    /\ applied.fn = "_convert_to_a1"
    /\ applied.row_index = Num(4)
    /\ applied.col_index = Num(2)
    /\ returned.done
    /\ ~returned.raised
    /\ returned.text = "C5"


----------------------------------------------------------------------------
(* The Table over a spreadsheet that reads every range of one delete batch  *)
(* against the rows as they were before the batch, every remote call       *)
(* succeeding                                                               *)

InitSnapshot == InitWith("snapshot")

TableCommitOk ==
    \E r \in {commit(Self, remote, policy, "none")} :
        /\ ~r.raised
        /\ Becomes(r.self)
        /\ remote' = r.store
        /\ UNCHANGED <<policy, callVars, sdkVars, evalVars, threadVars>>

NextSnapshot == TableInsert \/ TableUpdate \/ TableDelete \/ TableCommitOk

SpecSnapshot == InitSnapshot /\ [][NextSnapshot]_vars

\* a row as its logical values: each cell coerced by the type of its column,
\* a cell the row does not have, None and '' all being None
Logical(row) ==
    [c \in 1..Len(ColDefs) |->
        IF c <= Len(row) THEN convert_to_value(row[c], ColDefs[c].type) ELSE None]

LogicalRows(rows) == [r \in 1..Len(rows) |-> Logical(rows[r])]

\* C27: from a Table whose base rows are the remote rows, after any insert,
\* update, delete and successful commit calls, the spreadsheet reading each
\* delete batch against the rows of before the batch, the remote rows after
\* each commit are the Table's base rows, None and '' being the same
C27_CommitLeavesBaseEqualRemote ==
    [][TableCommitOk => LogicalRows(store_read(remote').values) = LogicalRows(initial_rows')]_vars


----------------------------------------------------------------------------
(* Claims on the delete batch of commit *)

\* the spreadsheet as the delete block of a commit called now meets it: after
\* the update block, if there is one
SheetAtDelete ==
    IF has_pending(Self, "update_rows") /\ ~commit_call(Self, "update_rows", remote, policy).raised
    THEN commit_call(Self, "update_rows", remote, policy).store
    ELSE remote

\* the rows of the sheet other than those at the deleted indexes
WithoutDeletedIndexes(rows) ==
    FilterSeq(rows, [i \in 1..Len(rows) |-> i - 1 \notin deleted_initial_row_indexes])

\* C28: when the spreadsheet carries out the delete ranges of one batch one
\* after another in the order issued, each against the rows the one before
\* left, the rows the delete batch of commit removes are exactly the rows at
\* deleted_initial_row_indexes, for every such set, sets of two or more
\* separate runs included
C28_SequentialBatchRemovesTheDeleted ==
    deleted_initial_row_indexes # {}
        => commit_call(Self, "delete_rows", SheetAtDelete, "sequential").store
               = trim_rows(WithoutDeletedIndexes(SheetAtDelete))


----------------------------------------------------------------------------
(* A commit that runs block by block while a second caller edits the Table. *)
(* pc names the block or the line of commit that runs next; with locking,   *)
(* the callers hold one lock around each call, so an edit runs only while   *)
(* no commit is under way                                                   *)

InitThreads ==
    /\ remote \in SeqsUpTo(StoreRows, MaxRows)
    /\ InitTable("sequential")
    /\ applied = NotApplied
    /\ returned = NotReturned
    /\ locking \in BOOLEAN

\* (a variant in which the lock does not keep an edit out of a running commit)
MayEdit_any_time == TRUE

\* an insert, update or delete of the second caller can run now
MayEdit == ~locking \/ pc = "idle"

\* the model follows a run until a commit has dropped an edit: that commit
\* runs to its end, and no further call is made
Following == ~lost

ThreadInsert == Following /\ MayEdit /\ TableInsert

ThreadUpdate == Following /\ MayEdit /\ TableUpdate

ThreadDelete == Following /\ MayEdit /\ TableDelete

CommitBegin ==
    /\ Following
    /\ pc = "idle"
    /\ pc' = "update_rows"
    /\ carried' = NothingSent
    /\ lost' = FALSE
    /\ UNCHANGED <<locking, oneTableVars, sdkVars, evalVars>>

\* what a call carried, kept to compare with what the reset drops
Carrying(fn, call) ==
    IF fn = "update_rows" THEN [carried EXCEPT !.rows_data = call.rows_data]
    ELSE IF fn = "delete_rows" THEN [carried EXCEPT !.row_indexes_set = call.row_indexes_set]
    ELSE [carried EXCEPT !.rows = call.rows]

\* one block of commit: its guard, and its remote call, which succeeds (the
\* model follows the spreadsheet up to MaxRows rows)
CommitBlock(fn, next) ==
    /\ IF has_pending(Self, fn)
       THEN \E c \in {commit_call(Self, fn, remote, policy)} :
               /\ Len(c.store) <= MaxRows
               /\ remote' = IF c.raised THEN remote ELSE c.store
               /\ carried' = IF c.raised THEN carried ELSE Carrying(fn, c.call)
               /\ pc' = IF c.raised THEN "idle" ELSE next
       ELSE /\ pc' = next
            /\ UNCHANGED <<remote, carried>>
    /\ UNCHANGED <<tableVars, policy, callVars, locking, lost, sdkVars, evalVars>>

CommitUpdateBlock == pc = "update_rows" /\ CommitBlock("update_rows", "delete_rows")

CommitDeleteBlock == pc = "delete_rows" /\ CommitBlock("delete_rows", "insert_rows")

CommitInsertBlock == pc = "insert_rows" /\ CommitBlock("insert_rows", "line_526")

\* self.initial_rows = self._get_effective_rows()
CommitLine526 ==
    /\ pc = "line_526"
    /\ initial_rows' = get_effective_rows(Self)
    /\ lost' = (\/ lost
                \/ inserted_rows # carried.rows
                \/ deleted_initial_row_indexes # carried.row_indexes_set
                \/ commit_rows_data(Self) # carried.rows_data)
    /\ pc' = "line_527"
    /\ UNCHANGED <<inserted_rows, deleted_initial_row_indexes, updated_initial_row_indexes,
                   remote, policy, callVars, locking, carried, sdkVars, evalVars>>

\* self.inserted_rows = []
CommitLine527 ==
    /\ pc = "line_527"
    /\ inserted_rows' = <<>>
    /\ lost' = (lost \/ inserted_rows # carried.rows)
    /\ pc' = "line_528"
    /\ UNCHANGED <<initial_rows, deleted_initial_row_indexes, updated_initial_row_indexes,
                   remote, policy, callVars, locking, carried, sdkVars, evalVars>>

\* self.deleted_initial_row_indexes = set()
CommitLine528 ==
    /\ pc = "line_528"
    /\ deleted_initial_row_indexes' = {}
    /\ lost' = (lost \/ deleted_initial_row_indexes # carried.row_indexes_set)
    /\ pc' = "line_529"
    /\ UNCHANGED <<initial_rows, inserted_rows, updated_initial_row_indexes,
                   remote, policy, callVars, locking, carried, sdkVars, evalVars>>

\* self.updated_initial_row_indexes = set()
CommitLine529 ==
    /\ pc = "line_529"
    /\ updated_initial_row_indexes' = {}
    /\ lost' = (lost \/ updated_initial_row_indexes # {d.index : d \in carried.rows_data})
    /\ pc' = "idle"
    /\ UNCHANGED <<initial_rows, inserted_rows, deleted_initial_row_indexes,
                   remote, policy, callVars, locking, carried, sdkVars, evalVars>>

NextThreads ==
    \/ ThreadInsert \/ ThreadUpdate \/ ThreadDelete
    \/ CommitBegin \/ CommitUpdateBlock \/ CommitDeleteBlock \/ CommitInsertBlock
    \/ CommitLine526 \/ CommitLine527 \/ CommitLine528 \/ CommitLine529

SpecThreads == InitThreads /\ [][NextThreads]_vars

\* C29: when the callers serialize commit and the edits with a lock, no
\* commit folds into the base rows or clears from the pending sets an edit
\* that its remote calls did not carry (without the lock that outcome is
\* reachable, and leaves base rows and remote rows different)
C29_LockedCommitLosesNoEdit == locking => ~lost

\* without the lock: an edit made while commit was running has been dropped
\* unsent by a commit now over, and base rows and remote rows differ
C29_Witness ==
    /\ ~locking
    /\ lost
    /\ pc = "idle"
    /\ inserted_rows = <<>>
    /\ deleted_initial_row_indexes = {}
    /\ updated_initial_row_indexes = {}
    /\ \A r \in 1..Len(initial_rows) : Len(initial_rows[r]) = Len(ColDefs)
    /\ LogicalRows(store_read(remote).values) # LogicalRows(initial_rows)


----------------------------------------------------------------------------
(* Claims on an update or a delete that raises *)

\* the Table as it is, and as it is after one more insert of a row whose
\* number cell holds a text that is no number (insert does not look at values)
TablesToEdit == {Self, insert(Self, ("b" :> Str("x"))).self}

\* C30: an update or a delete that raises (a key of row_data outside the
\* schema, a predicate on an unknown column, a comparator that is not legal,
\* an evaluation that fails on one particular row) leaves base rows,
\* inserted rows, deleted indexes and updated indexes exactly as they were
C30_FailedEditChangesNothing ==
    \A table \in TablesToEdit :
        \A where_conditions \in ConditionCases \cup FailingConditionCases :
            /\ \A row_data \in UpdateCases :
                   update(table, row_data, where_conditions).raised
                       => update(table, row_data, where_conditions).self = table
            /\ delete(table, where_conditions).raised
                   => delete(table, where_conditions).self = table


----------------------------------------------------------------------------
(* Claims on update and the rows the spreadsheet returned short *)

\* C31: an update with keys of the schema and predicates on columns of the
\* schema returns on every matched row, base rows shorter than the schema
\* included; afterwards every matched base index is in the updated indexes
\* and a select of the named columns shows the new values for its row
C31_UpdateReachesShortRows ==
    \A row_data \in UpdateCases, conds \in ConditionCases :
        (DOMAIN row_data \subseteq col_names(ColDefs) /\ KnownColumns(conds)) =>
            \E r \in {update(Self, row_data, conds)} :
                /\ ~r.raised
                /\ \A i \in 0..(Len(initial_rows) - 1) :
                       (/\ i \notin deleted_initial_row_indexes
                        /\ is_where_conditions_passed(ColDefs, initial_rows[i + 1], conds) = "T")
                           => /\ i \in r.self.updated_initial_row_indexes
                              /\ \A names \in NameLists :
                                     Range(names) = DOMAIN row_data =>
                                         Shown(r.self.initial_rows[i + 1], names)
                                             = Coerced(row_data, names)


----------------------------------------------------------------------------
(* Claims on the rows a commit both rewrites and removes *)

\* C32: the update batch a commit issues holds no index that is among the
\* deleted indexes when commit is called: a base row updated and then deleted
\* before the commit is removed and never written
C32_UpdateBatchSkipsDeletedRows ==
    [][CommitStep =>
          \A k \in CallsOf(calls', "update_rows") :
              /\ \A d \in calls'[k].rows_data :
                     d.index \notin deleted_initial_row_indexes
              /\ \A x \in calls'[k].data :
                     \A i \in deleted_initial_row_indexes :
                         x.first # "A" \o ToString(i + 1)]_vars


----------------------------------------------------------------------------
(* Claims on the two-letter column names *)

\* the letters of a spreadsheet column name, numbered from 0
Alphabet ==
    <<"A", "B", "C", "D", "E", "F", "G", "H", "I", "J", "K", "L", "M",
      "N", "O", "P", "Q", "R", "S", "T", "U", "V", "W", "X", "Y", "Z">>

\* the standard name of the columns 26..255
TwoLetterName(c) == Alphabet[(c \div 26) - 1 + 1] \o Alphabet[(c % 26) + 1]

\* C33: for a column index c in 26..255, _convert_to_a1 gives the standard
\* two-letter column name, letter floor(c/26) - 1 then letter c mod 26
\* (26 is AA, 51 is AZ, 52 is BA, 255 is IV); and no other column index in
\* 0..255 is given the name of the applied one
C33_TwoLetterColumnNames ==
    (applied.fn = "_convert_to_a1" /\ returned.done)
        => LET r == applied.row_index
               c == applied.col_index
               row_text == IF r = None THEN "" ELSE Decimal(r.n + 1)
           IN  (c # None /\ c.n \in 0..255 /\ (r = None \/ r.n >= 0)) =>
                   /\ ~returned.raised
                   /\ c.n >= 26 => returned.text = TwoLetterName(c.n) \o row_text
                   /\ c.n = 26 => returned.text = "AA" \o row_text
                   /\ c.n = 51 => returned.text = "AZ" \o row_text
                   /\ c.n = 52 => returned.text = "BA" \o row_text
                   /\ c.n = 255 => returned.text = "IV" \o row_text
                   /\ \A c2 \in 0..255 :
                          c2 # c.n =>
                              /\ ~convert_to_a1(r, Num(c2)).raised
                              /\ convert_to_a1(r, Num(c2)).text # returned.text
                              /\ convert_to_a1(None, Num(c2)).text
                                     # convert_to_a1(None, c).text

\* the last column of the range, on the first row
C33_Witness ==
    /\ applied.fn = "_convert_to_a1"
    /\ applied.row_index = Num(0)
    /\ applied.col_index = Num(255)
    /\ returned.done
    /\ ~returned.raised
    /\ returned.text = "IV1"

=============================================================================
